---- MODULE Spec2Model ----
(***************************************************************************)
(* KidMail Protector: the provider connection pool (EmailProviderManager), *)
(* the provider factory, the IMAP provider session, the per-account scan   *)
(* scheduler (EmailService) and the content filter, as a state machine.    *)
(* One action is one run of JavaScript between two awaits on real I/O:     *)
(* awaits on the in-memory store resolve in the same macrotask and are     *)
(* part of the action that reaches them.                                   *)
(***************************************************************************)
EXTENDS Integers, Sequences, FiniteSets, TLC

(* ---------------------------- bounds --------------------------------- *)
NumAccounts == 3
NumSlots == 2
MaxTime == 2
\* IMAP clients that were replaced while their 'end' event is still awaited
\* are told apart up to this age
MaxAge == 1
\* the number of scan runs (timer callbacks and check-now requests) started
MaxRuns == 2
\* how many junk-mail preference records the store holds at most
MaxPrefs == 2
\* how many filter rules are registered at most
MaxRules == 2

(* ----------------------- program constants --------------------------- *)
\* maxPoolSize, scaled from 20 to the size of the model
maxPoolSize == 2
\* idleTimeout, scaled from 5 minutes to one clock unit
idleTimeout == 1

Accounts == 1..NumAccounts
Slots == 1..NumSlots
Times == 0..MaxTime

\* account.user_id: every account of the model belongs to user 1
UserOf(a) == 1

\* account.provider as ProviderType || 'icloud': ChildAccount has no field
\* 'provider', so the expression is 'icloud' for every account
ProviderTypeOf(a) == "icloud"

\* the provider_type of the emailProviders record that account.provider_id
\* refers to: account 2 is a Gmail account, the others are iCloud accounts
ProviderReference(a) == IF a = 2 THEN "gmail" ELSE "icloud"

VARIABLES
  now,              \* the wall clock (Date.now())
  connectionPool,   \* EmailProviderManager.connectionPool, in insertion order
  providerInstances,\* EmailProviderFactory.providerInstances: ptype -> session state
  waiters,          \* continuations waiting for the 'end' event of an IMAP client
  ticks,            \* the checkAndForward runs in flight, one per slot
  checkIntervals,   \* EmailService.checkIntervals: accounts with a live timer
  mailbox,          \* per account, the messages of its junk folder by sequence number
  trustedSenders,   \* MemStorage.trustedSenders
  junkMailPreferences, \* MemStorage.junkMailPreferences, in insertion order
  runs,             \* how many scan runs were started so far
  analysis,         \* the last request and response of POST /api/analyze-content
  childAccounts,    \* MemStorage.childAccounts: the stored credentials per account
  tokenRequests,    \* the grants posted to the provider's oauth_token_url so far
  tokenResult,      \* what the last call of the OAuth service returned
  filterRules,      \* MemStorage.filterRules, in insertion order
  filterRuleIdCounter, \* MemStorage.filterRuleIdCounter: the id of the next rule
  customFilters,    \* ContentFilter.customFilters and customRegexFilters, per user
  filterCall,       \* the last operation on the filter rules and how it ended
  teardown,         \* how far the call of disconnectAll has come
  timers,           \* per account, the interval timers of the runtime that are not cleared
  is_active,        \* MemStorage.childAccounts: the active flag per account
  check_interval,   \* MemStorage.childAccounts: the stored interval per account, in minutes
  period            \* per account, the period of its timer in minutes, 0 without a timer

\* the state of the OAuth service and of the custom filter rules
oauthVars == <<childAccounts, tokenRequests, tokenResult>>
filterVars == <<filterRules, filterRuleIdCounter, customFilters, filterCall>>
\* the timers of the runtime and the active flags of the accounts
scheduleVars == <<timers, is_active, check_interval, period>>

vars == <<now, connectionPool, providerInstances, waiters, ticks,
          checkIntervals, mailbox, trustedSenders, junkMailPreferences, runs,
          analysis, oauthVars, filterVars, teardown, scheduleVars>>

(* ------------------------- sequences --------------------------------- *)
RECURSIVE SeqFilterOut(_, _)
SeqFilterOut(s, a) ==
  IF s = <<>> THEN <<>>
  ELSE IF Head(s).accountId = a THEN SeqFilterOut(Tail(s), a)
       ELSE <<Head(s)>> \o SeqFilterOut(Tail(s), a)

Range(s) == {s[i] : i \in 1..Len(s)}

(* ---------------------- the connection pool -------------------------- *)
\* ConnectionPoolEntry; entry.provider is the factory's instance of providerType
PoolEntry(a, t, c, e) ==
  [accountId |-> a, providerType |-> ProviderTypeOf(a), lastUsed |-> t,
   isConnected |-> c, connectionError |-> e]

PoolHas(pool, a) == \E i \in 1..Len(pool) : pool[i].accountId = a
PoolIndex(pool, a) == CHOOSE i \in 1..Len(pool) : pool[i].accountId = a
PoolGet(pool, a) == pool[PoolIndex(pool, a)]
\* Map.set: an existing key keeps its place, a new key goes last
PoolSet(pool, e) ==
  IF PoolHas(pool, e.accountId)
  THEN [pool EXCEPT ![PoolIndex(pool, e.accountId)] = e]
  ELSE Append(pool, e)
PoolDelete(pool, a) == SeqFilterOut(pool, a)
PoolKeys(pool) == {pool[i].accountId : i \in 1..Len(pool)}
PoolSize(pool) == Len(pool)

\* EmailProviderManager.getConnectionErrors: the accounts it reports
getConnectionErrors(pool) ==
  {pool[i].accountId : i \in {j \in 1..Len(pool) :
                                ~pool[j].isConnected /\ pool[j].connectionError}}

(* ------------------- the provider session (IMAP) --------------------- *)
ProviderTypes == {ProviderTypeOf(a) : a \in Accounts}

\* BaseEmailProvider fields of one cached instance.  client is the state of
\* this.imapClient, authUser the account whose credentials it was built with,
\* box that a folder of that client is open (this.currentFolder), late that
\* a connect which lost the race against the timeout may still report.
NoProvider ==
  [created |-> FALSE, connectionState |-> FALSE, client |-> "none",
   lastError |-> FALSE, authUser |-> 0, box |-> FALSE, late |-> FALSE]

\* a continuation waiting for the 'end' event of the client of the given age
\* (0 is the provider's current client)
OpWaiter(p, a) == [kind |-> "op", ptype |-> p, id |-> a, age |-> 0]
TickWaiter(p, s) == [kind |-> "tick", ptype |-> p, id |-> s, age |-> 0]

\* the manager's and the scheduler's state that one synchronous run
\* reads and writes; imm holds the accounts whose disconnectProvider
\* continuation is already runnable (its disconnect resolved at once)
Mgr(pool, prov, w, tk) == [pool |-> pool, prov |-> prov, w |-> w, tk |-> tk, imm |-> {}]

\* the entry object of account a left the map: a reconnect that still holds
\* it writes to an object the pool no longer contains
Detach(tk, a) ==
  [s \in Slots |->
     IF tk[s].acct = a /\ tk[s].pc = "reconnect"
     THEN [tk[s] EXCEPT !.attached = FALSE] ELSE tk[s]]

\* OutlookProvider.disconnect up to its await, called for waiter wt: a client
\* that is not yet disconnected is ended and the promise waits for its 'end'
\* event; otherwise the connection state is cleared and the promise is
\* resolved at once (result.now)
ProviderDisconnect(prov, w, wt) ==
  LET p == wt.ptype IN
  IF prov[p].client \in {"none", "closed"}
  THEN [prov |-> [prov EXCEPT ![p].connectionState = FALSE], w |-> w, now |-> TRUE]
  ELSE [prov |-> [prov EXCEPT ![p].client = "ending"], w |-> w \cup {wt}, now |-> FALSE]

\* OutlookProvider.connect up to its promise, called by the run in slot s for
\* account a: the options are stored and a new IMAP client replaces
\* this.imapClient; continuations that wait for the end of an older client
\* keep waiting for that client, and an older connect in flight no longer
\* owns the provider's current client (cur)
ProviderConnect(M, s, a) ==
  LET p == ProviderTypeOf(a) IN
  [M EXCEPT
     !.prov = [M.prov EXCEPT ![p].created = TRUE, ![p].client = "connecting",
                             ![p].authUser = a, ![p].box = FALSE],
     !.w = {[x EXCEPT !.age = IF x.ptype = p /\ x.age < MaxAge THEN x.age + 1 ELSE x.age]
              : x \in M.w},
     !.tk = [x \in Slots |->
               IF x = s THEN [M.tk[x] EXCEPT !.cur = TRUE]
               ELSE IF M.tk[x].acct # 0 /\ ProviderTypeOf(M.tk[x].acct) = p
                    THEN [M.tk[x] EXCEPT !.cur = FALSE] ELSE M.tk[x]]]

\* EmailProviderManager.disconnectProvider up to its await
DisconnectProviderSync(M, a) ==
  IF ~PoolHas(M.pool, a) THEN M
  ELSE
    LET e == PoolGet(M.pool, a) IN
    IF e.isConnected
    THEN LET r == ProviderDisconnect(M.prov, M.w, OpWaiter(e.providerType, a)) IN
         [M EXCEPT !.prov = r.prov, !.w = r.w,
                   !.imm = IF r.now THEN M.imm \cup {a} ELSE M.imm]
    ELSE [M EXCEPT !.pool = PoolDelete(M.pool, a), !.tk = Detach(M.tk, a)]

\* a disconnectProvider that left the entry in the pool after its await
DisconnectProviderResume_KeepsEntry(M, a) == M

\* the rest of disconnectProvider, after its await: entry.isConnected = false
\* is written to the entry that is then deleted, so only the delete shows
DisconnectProviderResume(M, a) ==
  IF PoolHas(M.pool, a)
  THEN [M EXCEPT !.pool = PoolDelete(M.pool, a), !.tk = Detach(M.tk, a)]
  ELSE M

\* the promise of disconnectAll for a session of provider p
AllWaiter(p) == [kind |-> "all", ptype |-> p, id |-> 0, age |-> 0]

\* the loop of disconnectAll: disconnect() on the session of every entry that
\* is marked connected, in map order
RECURSIVE disconnectAllSync(_, _)
disconnectAllSync(M, i) ==
  IF i > Len(M.pool) THEN M
  ELSE LET e == M.pool[i]
           r == ProviderDisconnect(M.prov, M.w, AllWaiter(e.providerType))
       IN disconnectAllSync(IF e.isConnected THEN [M EXCEPT !.prov = r.prov, !.w = r.w]
                            ELSE M, i + 1)

\* disconnectAll after 'await Promise.all(disconnectPromises)': the pool is
\* cleared, so every entry object a reconnect still holds left the map
disconnectAllResume(M) ==
  [M EXCEPT !.pool = <<>>,
            !.tk = [s \in Slots |->
                      IF M.tk[s].pc = "reconnect" THEN [M.tk[s] EXCEPT !.attached = FALSE]
                      ELSE M.tk[s]]]

RECURSIVE DisconnectAllOf(_, _)
DisconnectAllOf(M, ids) ==
  IF ids = <<>> THEN M
  ELSE DisconnectAllOf(DisconnectProviderSync(M, Head(ids)), Tail(ids))

RECURSIVE ResumeAll(_, _)
ResumeAll(M, ids) ==
  IF ids = {} THEN M
  ELSE LET a == CHOOSE x \in ids : TRUE IN
       ResumeAll(DisconnectProviderResume(M, a), ids \ {a})

\* the microtasks a synchronous run leaves behind run before any other event
Drain(M) == [ResumeAll(M, M.imm) EXCEPT !.imm = {}]

RECURSIVE IdleIds(_, _)
IdleIds(pool, t) ==
  IF pool = <<>> THEN <<>>
  ELSE (IF t - Head(pool).lastUsed > idleTimeout THEN <<Head(pool).accountId>> ELSE <<>>)
       \o IdleIds(Tail(pool), t)

\* EmailProviderManager.cleanupIdleConnections
cleanupIdleConnections(M, t) == DisconnectAllOf(M, IdleIds(M.pool, t))

\* the loop of disconnectLeastRecentlyUsed: the first entry, in map order,
\* with the least lastUsed among those used strictly before Date.now(); 0 if
\* there is none
OldestId(pool, t) ==
  LET older == {i \in 1..Len(pool) : pool[i].lastUsed < t} IN
  IF older = {} THEN 0
  ELSE LET i == CHOOSE j \in older :
                  \A k \in older : pool[j].lastUsed < pool[k].lastUsed
                                   \/ (pool[j].lastUsed = pool[k].lastUsed /\ j <= k)
       IN pool[i].accountId

\* EmailProviderManager.disconnectLeastRecentlyUsed
disconnectLeastRecentlyUsed(M, t) ==
  LET oldestId == OldestId(M.pool, t) IN
  IF oldestId # 0 THEN DisconnectProviderSync(M, oldestId) ELSE M

\* createNewConnection up to the await of connectProvider, for the run in slot s
createNewConnectionSync(M, s, a, t) ==
  LET M1 == IF PoolSize(M.pool) >= maxPoolSize THEN cleanupIdleConnections(M, t) ELSE M
      M2 == IF PoolSize(M1.pool) >= maxPoolSize THEN disconnectLeastRecentlyUsed(M1, t) ELSE M1
      M3 == ProviderConnect(M2, s, a)
  IN [M3 EXCEPT !.tk = [M3.tk EXCEPT ![s].pc = "connect"]]

\* getProviderForAccount if it connected the pooled session on every call
getProviderForAccountSync_AlwaysConnects(M, s, a, t) ==
  IF PoolHas(M.pool, a)
  THEN LET e == [PoolGet(M.pool, a) EXCEPT !.lastUsed = t]
           M1 == ProviderConnect([M EXCEPT !.pool = PoolSet(M.pool, e)], s, a)
       IN [M1 EXCEPT !.tk = [M1.tk EXCEPT ![s].pc = "reconnect", ![s].attached = TRUE]]
  ELSE createNewConnectionSync(M, s, a, t)

\* getProviderForAccount up to its first await on the network, or to its
\* return when the pooled entry is marked connected
getProviderForAccountSync(M, s, a, t) ==
  IF PoolHas(M.pool, a)
  THEN LET e == [PoolGet(M.pool, a) EXCEPT !.lastUsed = t]
           pool1 == PoolSet(M.pool, e)
       IN IF e.isConnected
          THEN [M EXCEPT !.pool = pool1,
                         !.tk = [M.tk EXCEPT ![s].pc = "select",
                                             ![s].provider = e.providerType]]
          ELSE LET M1 == ProviderConnect([M EXCEPT !.pool = pool1], s, a) IN
               [M1 EXCEPT !.tk = [M1.tk EXCEPT ![s].pc = "reconnect",
                                               ![s].attached = TRUE]]
  ELSE createNewConnectionSync(M, s, a, t)

(* --------------------------- strings --------------------------------- *)
\* An address is its lower-case, trimmed text (base) with two marks: up says
\* it contains upper-case letters, pad that it has surrounding white space.
Email(b, u, p) == [base |-> b, up |-> u, pad |-> p]
\* String.prototype.toLowerCase
LowerEmail(e) == [e EXCEPT !.up = FALSE]
\* String.prototype.trim
TrimEmail(e) == [e EXCEPT !.pad = FALSE]
\* a string is falsy iff it is empty
Truthy(e) == ~(e.base = "" /\ ~e.pad)
EmptyString == Email("", FALSE, FALSE)
UnknownSender == Email("unknown sender", TRUE, FALSE)

\* A text is a sequence of words separated by white space.
\* toLowerCase on the words of the model
LowerWord(w) ==
  CASE w = "VIAGRA" -> "viagra"
    [] w = "Casino" -> "casino"
    [] w = "Newsletter" -> "newsletter"
    [] w = "NUDE" -> "nude"
    [] w \in {"Secret", "SECRET"} -> "secret"
    [] w = "SECRETS" -> "secrets"
    [] w \in {"Hello", "HELLO"} -> "hello"
    [] OTHER -> w
LowerText(t) == [i \in 1..Len(t) |-> LowerWord(t[i])]
\* String.prototype.includes of a one-word pattern in a word of the model
WordIncludes(w, k) ==
  w = k \/ (w = "sexy" /\ k = "sex") \/ (w = "unsubscribe" /\ k = "subscribe")
  \/ (w = "secrets" /\ k = "secret") \/ (w = "SECRETS" /\ k = "SECRET")
\* String.prototype.includes on the addresses of the model
EmailIncludes(e, k) == e.base = "news@facebook.com" /\ k = "facebook"
Includes(t, k) == \E i \in 1..Len(t) : WordIncludes(t[i], k)
\* /\bk\b/i.test
RegexTest(t, k) == \E i \in 1..Len(t) : LowerWord(t[i]) = k

Undefined == -1
Null == 0

(* ------------------------- the record store -------------------------- *)
\* isEmailTrusted if it compared the stored address as it was typed
isEmailTrusted_CaseSensitive(ts, email, userId, childAccountId) ==
  LET normalizedEmail == TrimEmail(LowerEmail(email)) IN
  \E sender \in ts :
    /\ sender.user_id = userId
    /\ ~(childAccountId # Undefined /\ sender.child_account_id # Null
          /\ sender.child_account_id # childAccountId)
    /\ sender.email_address = normalizedEmail

\* MemStorage.isEmailTrusted
isEmailTrusted(ts, email, userId, childAccountId) ==
  LET normalizedEmail == TrimEmail(LowerEmail(email)) IN
  \E sender \in ts :
    /\ sender.user_id = userId
    /\ ~(childAccountId # Undefined /\ sender.child_account_id # Null
          /\ sender.child_account_id # childAccountId)
    /\ LowerEmail(sender.email_address) = normalizedEmail

\* a record of MemStorage.junkMailPreferences (createJunkMailPreferences)
JunkMailPreferences(id, userId, childAccountId, newsletters, autoDelete) ==
  [id |-> id, user_id |-> userId, child_account_id |-> childAccountId,
   keep_newsletters |-> newsletters, keep_receipts |-> FALSE,
   keep_social_media |-> FALSE, auto_delete_all |-> autoDelete]
\* what Array.prototype.find returns when no record passes: undefined
NoPreferences == JunkMailPreferences(Null, Null, Null, FALSE, FALSE)

\* MemStorage.getJunkMailPreferences: the first record of the user whose
\* account scope equals the requested account; undefined when there is none
getJunkMailPreferences(prefs, userId, childAccountId) ==
  LET hit == {i \in 1..Len(prefs) :
                /\ prefs[i].user_id = userId
                /\ ~(childAccountId # Undefined /\ prefs[i].child_account_id # childAccountId)}
  IN IF hit = {} THEN NoPreferences
     ELSE prefs[CHOOSE i \in hit : \A j \in hit : i <= j]

(* ------------------------ the content filter ------------------------- *)
\* ContentFilter.defaultFilters, the one-word terms the model's texts can hit
defaultFilters == <<"viagra", "casino", "sex", "nude">>
\* ContentFilter.defaultRegexFilters, likewise
defaultRegexFilters == <<"sex", "casino">>
adultImageKeywords == <<"nude", "naked", "xxx", "porn", "adult">>

FirstHit(list, Test(_)) ==
  LET hit == {i \in 1..Len(list) : Test(list[i])} IN
  IF hit = {} THEN 0 ELSE CHOOSE i \in hit : \A j \in hit : i <= j

\* the users whose rules the store and the classifier hold
Users == {1, 2}

\* a record of MemStorage.filterRules (createFilterRule)
FilterRule(id, userId, childAccountId, text, isRegex) ==
  [id |-> id, user_id |-> userId, child_account_id |-> childAccountId,
   rule_text |-> text, is_regex |-> isRegex]

\* MemStorage.createFilterRule: the rule is stored under the next id
createFilterRule(rules, id, userId, childAccountId, text, isRegex) ==
  Append(rules, FilterRule(id, userId, childAccountId, text, isRegex))

\* MemStorage.deleteFilterRule of a stored rule
deleteFilterRule(rules, id) == SelectSeq(rules, LAMBDA r : r.id # id)

\* new RegExp(text, 'i') throws a SyntaxError: "(" is the pattern of the
\* model that does not compile
RegExpThrows(text) == text = "("

\* regex.test(allText) of a custom pattern, a word compiled with flag 'i'
CustomRegexTest(allText, pattern) == Includes(LowerText(allText), LowerWord(pattern))

\* both maps of a classifier that holds no custom rule
NoCustomFilters == [text |-> [u \in Users |-> <<>>], regex |-> [u \in Users |-> <<>>]]

\* the texts of the rules of a user, literal or regex, in stored order
RuleTexts(rules, userId, isRegex) ==
  LET mine == SelectSeq(rules, LAMBDA r : r.user_id = userId /\ r.is_regex = isRegex)
  IN [i \in 1..Len(mine) |-> mine[i].rule_text]

\* loadCustomFilters if a pattern that does not compile ended the loading of
\* the user's regex rules
loadCustomFilters_StopsAtInvalid(rules, cf) ==
  LET RegexOf(u) ==
        LET all == RuleTexts(rules, u, TRUE)
            bad == {i \in 1..Len(all) : RegExpThrows(all[i])}
        IN IF bad = {} THEN all
           ELSE SubSeq(all, 1, (CHOOSE i \in bad : \A j \in bad : i <= j) - 1)
      Has(u) == \E i \in 1..Len(rules) : rules[i].user_id = u
  IN [text |-> [u \in Users |->
                  IF Has(u)
                  THEN LET lit == RuleTexts(rules, u, FALSE)
                       IN [i \in 1..Len(lit) |-> LowerWord(lit[i])]
                  ELSE cf.text[u]],
      regex |-> [u \in Users |-> IF Has(u) THEN RegexOf(u) ELSE cf.regex[u]]]

\* ContentFilter.loadCustomFilters: the maps of every user who has a stored
\* rule are rebuilt, literal rules in lower case, regex rules as far as they
\* compile; the rules carry no account scope into the maps
loadCustomFilters(rules, cf) ==
  LET Has(u) == \E i \in 1..Len(rules) : rules[i].user_id = u
  IN [text |-> [u \in Users |->
                  IF Has(u)
                  THEN LET lit == RuleTexts(rules, u, FALSE)
                       IN [i \in 1..Len(lit) |-> LowerWord(lit[i])]
                  ELSE cf.text[u]],
      regex |-> [u \in Users |->
                   IF Has(u)
                   THEN SelectSeq(RuleTexts(rules, u, TRUE), LAMBDA t : ~RegExpThrows(t))
                   ELSE cf.regex[u]]]

\* addCustomFilter if it kept the rule text as it was typed
addCustomFilter_KeepsCase(cf, userId, filterText, isRegex) ==
  IF isRegex
  THEN IF RegExpThrows(filterText) THEN cf
       ELSE [cf EXCEPT !.regex[userId] = Append(@, filterText)]
  ELSE [cf EXCEPT !.text[userId] = Append(@, filterText)]

\* ContentFilter.addCustomFilter after the rule was stored: the in-memory
\* maps of the user
addCustomFilter(cf, userId, filterText, isRegex) ==
  IF isRegex
  THEN IF RegExpThrows(filterText) THEN cf
       ELSE [cf EXCEPT !.regex[userId] = Append(@, filterText)]
  ELSE [cf EXCEPT !.text[userId] = Append(@, LowerWord(filterText))]

\* the HTML body of the model: words of text and alt attributes with a value
HtmlWord(w) == [alt |-> FALSE, word |-> w]
HtmlAlt(w) == [alt |-> TRUE, word |-> w]

\* checkContent if the keyword stages also searched the words of the HTML body
checkContent_ScansHtml(ts, subject, textContent, htmlContent, userId, senderEmail, childAccountId) ==
  LET htmlWords == SelectSeq(htmlContent, LAMBDA h : ~h.alt)
      allText == LowerText(subject \o textContent
                           \o [i \in 1..Len(htmlWords) |-> htmlWords[i].word])
      lit == FirstHit(defaultFilters, LAMBDA f : Includes(allText, LowerWord(f)))
      rex == FirstHit(defaultRegexFilters, LAMBDA r : RegexTest(allText, r))
      userFilters == IF userId \in Users THEN customFilters.text[userId] ELSE <<>>
      userRegexFilters == IF userId \in Users THEN customFilters.regex[userId] ELSE <<>>
      cus == FirstHit(userFilters, LAMBDA f : Includes(allText, f))
      crx == FirstHit(userRegexFilters, LAMBDA r : CustomRegexTest(allText, r))
      alt == FirstHit(adultImageKeywords,
                      LAMBDA k : \E i \in 1..Len(htmlContent) :
                                   /\ htmlContent[i].alt
                                   /\ LowerWord(htmlContent[i].word) = k)
  IN IF userId # Undefined /\ Truthy(senderEmail)
        /\ isEmailTrusted(ts, senderEmail, userId, childAccountId)
     THEN [isInappropriate |-> FALSE, reason |-> "Sender is trusted"]
     ELSE IF lit # 0
     THEN [isInappropriate |-> TRUE, reason |-> defaultFilters[lit]]
     ELSE IF rex # 0
     THEN [isInappropriate |-> TRUE, reason |-> defaultRegexFilters[rex]]
     ELSE IF userId # Undefined /\ cus # 0
     THEN [isInappropriate |-> TRUE, reason |-> userFilters[cus]]
     ELSE IF userId # Undefined /\ crx # 0
     THEN [isInappropriate |-> TRUE, reason |-> userRegexFilters[crx]]
     ELSE IF htmlContent # <<>> /\ alt # 0
     THEN [isInappropriate |-> TRUE, reason |-> adultImageKeywords[alt]]
     ELSE [isInappropriate |-> FALSE, reason |-> ""]

\* ContentFilter.checkContent.  htmlContent is the sequence of the words of
\* the HTML body and of the values of its alt attributes.
checkContent(ts, subject, textContent, htmlContent, userId, senderEmail, childAccountId) ==
  LET allText == LowerText(subject \o textContent)
      lit == FirstHit(defaultFilters, LAMBDA f : Includes(allText, LowerWord(f)))
      rex == FirstHit(defaultRegexFilters, LAMBDA r : RegexTest(allText, r))
      userFilters == IF userId \in Users THEN customFilters.text[userId] ELSE <<>>
      userRegexFilters == IF userId \in Users THEN customFilters.regex[userId] ELSE <<>>
      cus == FirstHit(userFilters, LAMBDA f : Includes(allText, f))
      crx == FirstHit(userRegexFilters, LAMBDA r : CustomRegexTest(allText, r))
      alt == FirstHit(adultImageKeywords,
                      LAMBDA k : \E i \in 1..Len(htmlContent) :
                                   /\ htmlContent[i].alt
                                   /\ LowerWord(htmlContent[i].word) = k)
  IN IF userId # Undefined /\ Truthy(senderEmail)
        /\ isEmailTrusted(ts, senderEmail, userId, childAccountId)
     THEN [isInappropriate |-> FALSE, reason |-> "Sender is trusted"]
     ELSE IF lit # 0
     THEN [isInappropriate |-> TRUE, reason |-> defaultFilters[lit]]
     ELSE IF rex # 0
     THEN [isInappropriate |-> TRUE, reason |-> defaultRegexFilters[rex]]
     ELSE IF userId # Undefined /\ cus # 0
     THEN [isInappropriate |-> TRUE, reason |-> userFilters[cus]]
     ELSE IF userId # Undefined /\ crx # 0
     THEN [isInappropriate |-> TRUE, reason |-> userRegexFilters[crx]]
     ELSE IF htmlContent # <<>> /\ alt # 0
     THEN [isInappropriate |-> TRUE, reason |-> adultImageKeywords[alt]]
     ELSE [isInappropriate |-> FALSE, reason |-> ""]

(* --------------------------- the scan run ---------------------------- *)
\* one checkAndForward run: its account, where it is, who started it, the
\* session it was handed, whether the entry it reconnects is still the pool's
\* (attached), whether its connect built the session's current client (cur),
\* whether the clock moved during its connect (waited), the preferences it
\* loaded, the messages it listed, those not yet processed, the ids queued
\* for deletion (messagesToDelete), what the last step threw and the activity
\* log entries it wrote
IdleTick ==
  [acct |-> 0, pc |-> "idle", origin |-> "none", provider |-> "none",
   attached |-> FALSE, cur |-> FALSE, waited |-> FALSE, prefs |-> NoPreferences,
   listed |-> <<>>, msgs |-> <<>>, queue |-> <<>>, thrown |-> "none", log |-> <<>>]

Free(tk, s) == tk[s].pc \in {"idle", "done", "failed"}
\* a run that returned or threw: its slot keeps how it ended, who started it
\* and what it logged
Finished(t, how, thrown) ==
  [IdleTick EXCEPT !.pc = how, !.origin = t.origin, !.log = t.log, !.thrown = thrown]
Running(tk, s) == ~Free(tk, s)

LogEntry(type, uid) == [activity_type |-> type, uid |-> uid]
Logged(tk, s, type, uid) == [tk EXCEPT ![s].log = Append(@, LogEntry(type, uid))]

\* a run that ended on a failure without writing to the activity log
TickFail_Silent(tk, s) == [tk EXCEPT ![s] = Finished(tk[s], "failed", "tick")]

\* the catch of checkAndForward (one 'error' entry, then rethrow) followed by
\* the handler of the caller: the timer callback logs a second 'error' entry,
\* the check-now route only writes to the console
TickFail(tk, s) ==
  LET t1 == Logged(tk, s, "error", 0)
      t2 == IF tk[s].origin = "timer" THEN Logged(t1, s, "error", 0) ELSE t1
  IN [t2 EXCEPT ![s] = Finished(t2[s], "failed", "tick")]

\* a rejection handler that stopped the timer of the account
TimerCatch_StopsTimer(ci, a) == ci \ {a}

\* what the rejection handler of the timer callback does to the timers
TimerCatch(ci, a) == ci

\* 'await provider.disconnect()' at the end of checkAndForward
BeginDisconnect(M, s) ==
  LET p == M.tk[s].provider
      r == ProviderDisconnect(M.prov, M.w, TickWaiter(p, s))
  IN [M EXCEPT !.prov = r.prov, !.w = r.w,
               !.tk = [M.tk EXCEPT ![s] = IF r.now THEN Finished(@, "done", "none")
                                            ELSE [@ EXCEPT !.pc = "disconnect"]]]

\* after the per-message loop: the batch delete when something is queued,
\* otherwise straight to the disconnect
AfterLoop(M, s) ==
  IF M.tk[s].queue # <<>>
  THEN [M EXCEPT !.tk = [M.tk EXCEPT ![s].pc = "delete"]]
  ELSE BeginDisconnect(M, s)

CurM == Mgr(connectionPool, providerInstances, waiters, ticks)
Commit(M) ==
  /\ connectionPool' = M.pool
  /\ providerInstances' = M.prov
  /\ waiters' = M.w
  /\ ticks' = M.tk

\* the slot a new run is kept in: the lowest that never held a run, else the
\* lowest whose run is over
LowestFree(tk) ==
  LET fresh == {s \in Slots : tk[s].pc = "idle"}
      free == IF fresh # {} THEN fresh ELSE {s \in Slots : Free(tk, s)}
  IN CHOOSE s \in free : \A x \in free : s <= x

\* checkAndForward from its start to the first await on the network, which
\* is inside getProviderForAccount
StartTick(a, origin) ==
  /\ runs < MaxRuns
  /\ runs' = runs + 1
  /\ \E s \in Slots : Free(ticks, s)
  /\ LET s == LowestFree(ticks)
         tk0 == [ticks EXCEPT ![s] = [IdleTick EXCEPT !.acct = a, !.pc = "start",
                                                      !.origin = origin]]
         tk1 == Logged([tk0 EXCEPT ![s].prefs =
                          getJunkMailPreferences(junkMailPreferences, UserOf(a), a)],
                       s, "check", 0)
         M == Drain(getProviderForAccountSync(
                      Mgr(connectionPool, providerInstances, waiters, tk1), s, a, now))
     IN Commit(M)

\* the callback of the account's setInterval timer
TimerFire(a) ==
  /\ timers[a] > 0
  /\ StartTick(a, "timer")
  /\ UNCHANGED <<scheduleVars, oauthVars, filterVars, teardown, now, checkIntervals, mailbox, trustedSenders, junkMailPreferences,
                 analysis>>

\* POST /api/check-now
CheckNow(a) ==
  /\ StartTick(a, "manual")
  /\ UNCHANGED <<scheduleVars, oauthVars, filterVars, teardown, now, checkIntervals, mailbox, trustedSenders, junkMailPreferences,
                 analysis>>

\* what a finished connect attempt does to the session: the 'ready' and
\* 'error' handlers of the client; a timeout leaves the client connecting
ConnectEffect(prov, p, cur, outcome) ==
  CASE outcome = "ok" ->
         [prov EXCEPT ![p].connectionState = TRUE,
                      ![p].client = IF cur /\ @ = "connecting" THEN "open" ELSE @]
    [] outcome = "error" ->
         [prov EXCEPT ![p].connectionState = FALSE, ![p].lastError = TRUE,
                      ![p].client = IF cur /\ @ = "connecting" THEN "closed" ELSE @]
    [] OTHER -> [prov EXCEPT ![p].late = TRUE]

ConnectOutcomes == {"ok", "error", "timeout"}

\* createNewConnection if connectProvider awaited the connect alone, with no
\* timeout to race it
ConnectDone_NoTimeout(s, outcome) ==
  /\ ticks[s].pc = "connect"
  /\ outcome # "timeout"
  /\ LET a == ticks[s].acct
         p == ProviderTypeOf(a)
         prov1 == ConnectEffect(providerInstances, p, ticks[s].cur, outcome)
         connected == outcome = "ok"
         e == PoolEntry(a, now, connected, IF connected THEN FALSE ELSE prov1[p].lastError)
         tk1 == IF PoolHas(connectionPool, a) THEN Detach(ticks, a) ELSE ticks
         tk2 == IF connected
                THEN [tk1 EXCEPT ![s].pc = "select", ![s].provider = p, ![s].cur = FALSE,
                                  ![s].waited = FALSE]
                ELSE TickFail(tk1, s)
     IN /\ connectionPool' = PoolSet(connectionPool, e)
        /\ providerInstances' = prov1
        /\ ticks' = tk2
        /\ checkIntervals' = IF connected THEN checkIntervals
                              ELSE TimerCatch(checkIntervals, a)
  /\ UNCHANGED <<scheduleVars, oauthVars, filterVars, teardown, now, waiters, mailbox, trustedSenders, junkMailPreferences, runs, analysis>>

\* createNewConnection after 'await this.connectProvider(...)'
ConnectDone(s, outcome) ==
  /\ ticks[s].pc = "connect"
  /\ LET a == ticks[s].acct
         p == ProviderTypeOf(a)
         prov1 == ConnectEffect(providerInstances, p, ticks[s].cur, outcome)
         connected == outcome = "ok"
         e == PoolEntry(a, now, connected, IF connected THEN FALSE ELSE prov1[p].lastError)
         tk1 == IF PoolHas(connectionPool, a) THEN Detach(ticks, a) ELSE ticks
         tk2 == IF connected
                THEN [tk1 EXCEPT ![s].pc = "select", ![s].provider = p, ![s].cur = FALSE,
                                  ![s].waited = FALSE]
                ELSE TickFail(tk1, s)
     IN /\ connectionPool' = PoolSet(connectionPool, e)
        /\ providerInstances' = prov1
        /\ ticks' = tk2
        /\ checkIntervals' = IF connected THEN checkIntervals
                              ELSE TimerCatch(checkIntervals, a)
  /\ UNCHANGED <<scheduleVars, oauthVars, filterVars, teardown, now, waiters, mailbox, trustedSenders, junkMailPreferences, runs, analysis>>

\* a reconnect that forgot to mark the entry connected
ReconnectedEntry_StaysDisconnected(e0, connected, lastError) ==
  IF connected THEN [e0 EXCEPT !.connectionError = FALSE]
  ELSE [e0 EXCEPT !.connectionError = lastError]

\* what getProviderForAccount writes to the entry it found disconnected once
\* the reconnect attempt is over
ReconnectedEntry(e0, connected, lastError) ==
  IF connected THEN [e0 EXCEPT !.isConnected = TRUE, !.connectionError = FALSE]
  ELSE [e0 EXCEPT !.connectionError = lastError]

\* getProviderForAccount after 'await this.connectProvider(account, entry.provider)'
ReconnectDone(s, outcome) ==
  /\ ticks[s].pc = "reconnect"
  /\ LET a == ticks[s].acct
         p == ProviderTypeOf(a)
         prov1 == ConnectEffect(providerInstances, p, ticks[s].cur, outcome)
         connected == outcome = "ok"
         e == ReconnectedEntry(PoolGet(connectionPool, a), connected, prov1[p].lastError)
     IN /\ connectionPool' = IF ticks[s].attached THEN PoolSet(connectionPool, e)
                              ELSE connectionPool
        /\ providerInstances' = prov1
        /\ ticks' = IF connected
                     THEN [ticks EXCEPT ![s].pc = "select", ![s].provider = p,
                                        ![s].cur = FALSE, ![s].attached = FALSE,
                                        ![s].waited = FALSE]
                     ELSE TickFail(ticks, s)
        /\ checkIntervals' = IF connected THEN checkIntervals
                              ELSE TimerCatch(checkIntervals, a)
  /\ UNCHANGED <<scheduleVars, oauthVars, filterVars, teardown, now, waiters, mailbox, trustedSenders, junkMailPreferences, runs, analysis>>

\* the client of a connect that lost the race against the timeout reports
LateConnect(p, outcome) ==
  /\ providerInstances[p].late
  /\ outcome \in {"ok", "error"}
  /\ providerInstances' =
       [ConnectEffect(providerInstances, p, TRUE, outcome) EXCEPT ![p].late = FALSE]
  /\ UNCHANGED <<scheduleVars, oauthVars, filterVars, teardown, now, connectionPool, waiters, ticks, checkIntervals, mailbox,
                 trustedSenders, junkMailPreferences, runs, analysis>>

\* the 'end' event of the client of age g of provider p: the handlers clear
\* the connection state and resolve the disconnect promises; the waiting
\* disconnectProvider calls delete their account's entry, the waiting runs
\* return, and disconnectAll clears the pool once all its promises resolved
ClientEnd(p, g) ==
  LET W == {x \in waiters : x.ptype = p /\ x.age = g}
      ops == {x.id : x \in {y \in W : y.kind = "op"}}
      tks == {x.id : x \in {y \in W : y.kind = "tick"}}
      prov1 == [providerInstances EXCEPT
                  ![p].connectionState = FALSE,
                  ![p].client = IF g = 0 THEN "closed" ELSE @,
                  ![p].box = IF g = 0 THEN FALSE ELSE @]
      tk1 == [s \in Slots |-> IF s \in tks THEN Finished(ticks[s], "done", "none")
                                             ELSE ticks[s]]
      M0 == ResumeAll(Mgr(connectionPool, prov1, waiters \ W, tk1), ops)
      last == (\E x \in W : x.kind = "all") /\ ~(\E x \in waiters \ W : x.kind = "all")
      M == IF last THEN disconnectAllResume(M0) ELSE M0
  IN /\ W # {}
     /\ Commit(M)
     /\ teardown' = IF last THEN "done" ELSE teardown
     /\ UNCHANGED <<scheduleVars, oauthVars, filterVars, now, checkIntervals, mailbox, trustedSenders, junkMailPreferences,
                    runs, analysis>>

\* EmailProviderManager.disconnectAll, called once (destroy): when no
\* promise is left waiting for an 'end' event the pool is cleared in the
\* same run
DisconnectAll ==
  /\ teardown = "none"
  /\ LET M1 == disconnectAllSync(CurM, 1)
         waits == \E x \in M1.w : x.kind = "all"
     IN /\ Commit(IF waits THEN M1 ELSE disconnectAllResume(M1))
        /\ teardown' = IF waits THEN "waiting" ELSE "done"
  /\ UNCHANGED <<scheduleVars, oauthVars, filterVars, now, checkIntervals, mailbox, trustedSenders,
                 junkMailPreferences, runs, analysis>>

\* the session can serve a mailbox command
Serving(pr) == pr.connectionState /\ pr.client = "open"

\* 'await provider.selectFolder(junkFolderPath)'
SelectFolder(s, ok) ==
  /\ ticks[s].pc = "select"
  /\ LET p == ticks[s].provider
         pr == providerInstances[p]
         selected == pr.connectionState /\ pr.client = "open" /\ ok
     IN /\ providerInstances' =
             IF selected THEN [providerInstances EXCEPT ![p].box = TRUE]
             ELSE [providerInstances EXCEPT ![p].lastError = TRUE]
        /\ ticks' = IF selected THEN [ticks EXCEPT ![s].pc = "list", ![s].thrown = "none"]
                     ELSE TickFail(ticks, s)
        /\ checkIntervals' = IF selected THEN checkIntervals
                              ELSE TimerCatch(checkIntervals, ticks[s].acct)
  /\ UNCHANGED <<scheduleVars, oauthVars, filterVars, teardown, now, connectionPool, waiters, mailbox, trustedSenders,
                 junkMailPreferences, runs, analysis>>

\* the UNSEEN messages of a mailbox, newest first, with id = sequence number
RECURSIVE Unseen(_, _)
Unseen(mb, i) ==
  IF i = 0 THEN <<>>
  ELSE (IF mb[i].seen THEN <<>>
        ELSE <<[id |-> i, uid |-> mb[i].uid, from |-> mb[i].from,
                subject |-> mb[i].subject, text |-> mb[i].text]>>)
       \o Unseen(mb, i - 1)

\* 'await provider.listMessages(junkFolderPath, {unreadOnly, limit})' and the
\* early return on an empty list
ListMessages(s, ok) ==
  /\ ticks[s].pc = "list"
  /\ LET p == ticks[s].provider
         pr == providerInstances[p]
         found == IF pr.connectionState THEN Unseen(mailbox[pr.authUser], Len(mailbox[pr.authUser]))
                  ELSE <<>>
         rejects == pr.connectionState /\ ~(pr.client = "open" /\ pr.box /\ ok)
     IN /\ providerInstances' =
             IF pr.connectionState /\ ~rejects THEN providerInstances
             ELSE [providerInstances EXCEPT ![p].lastError = TRUE]
        /\ ticks' = IF rejects THEN TickFail(ticks, s)
                     ELSE IF found = <<>>
                     THEN [ticks EXCEPT ![s] = Finished(@, "done", "none")]
                     ELSE [ticks EXCEPT ![s].pc = "process", ![s].listed = found,
                                        ![s].msgs = found, ![s].thrown = "none"]
        /\ checkIntervals' = IF rejects THEN TimerCatch(checkIntervals, ticks[s].acct)
                              ELSE checkIntervals
  /\ UNCHANGED <<scheduleVars, oauthVars, filterVars, teardown, now, connectionPool, waiters, mailbox, trustedSenders,
                 junkMailPreferences, runs, analysis>>

\* the keep-preference checks of the loop body; the last matching reason
\* wins, "" when the message is not kept
KeepReason(prefs, fromAddress, subject, textContent) ==
  LET sub == LowerText(subject)
      txt == LowerText(textContent)
      newsletter == prefs.keep_newsletters
                    /\ (Includes(sub, "newsletter") \/ Includes(txt, "newsletter")
                        \/ Includes(txt, "subscribe") \/ Includes(txt, "unsubscribe"))
      receipt == prefs.keep_receipts
                 /\ (Includes(sub, "receipt") \/ Includes(sub, "order")
                     \/ Includes(sub, "confirmation") \/ Includes(sub, "invoice"))
      social == prefs.keep_social_media
                /\ (EmailIncludes(LowerEmail(fromAddress), "facebook")
                    \/ EmailIncludes(LowerEmail(fromAddress), "instagram")
                    \/ EmailIncludes(LowerEmail(fromAddress), "twitter")
                    \/ EmailIncludes(LowerEmail(fromAddress), "linkedin")
                    \/ EmailIncludes(LowerEmail(fromAddress), "tiktok"))
  IN IF prefs = NoPreferences THEN ""
     ELSE IF social THEN "social media"
     ELSE IF receipt THEN "receipt/order"
     ELSE IF newsletter THEN "newsletter"
     ELSE ""

\* the loop body if it asked the classifier before the keep preferences
MessageOutcome_FilterBeforeKeep(ts, prefs, a, m) ==
  LET fromAddress == IF Truthy(m.from) THEN m.from ELSE UnknownSender
      subject == IF m.subject # <<>> THEN m.subject ELSE <<"No", "Subject">>
      filterResult == checkContent(ts, subject, m.text, <<>>, UserOf(a), fromAddress, a)
  IN IF isEmailTrusted(ts, fromAddress, UserOf(a), a) THEN "trusted_sender"
     ELSE IF filterResult.isInappropriate THEN "filter_match"
     ELSE IF KeepReason(prefs, fromAddress, subject, m.text) # "" THEN "kept"
     ELSE IF prefs # NoPreferences /\ prefs.auto_delete_all THEN "deleted"
     ELSE "untouched"

\* the decision of the loop body for one listed message
MessageOutcome(ts, prefs, a, m) ==
  LET fromAddress == IF Truthy(m.from) THEN m.from ELSE UnknownSender
      subject == IF m.subject # <<>> THEN m.subject ELSE <<"No", "Subject">>
      filterResult == checkContent(ts, subject, m.text, <<>>, UserOf(a), fromAddress, a)
  IN IF isEmailTrusted(ts, fromAddress, UserOf(a), a) THEN "trusted_sender"
     ELSE IF KeepReason(prefs, fromAddress, subject, m.text) # "" THEN "kept"
     ELSE IF filterResult.isInappropriate THEN "filter_match"
     ELSE IF prefs # NoPreferences /\ prefs.auto_delete_all THEN "deleted"
     ELSE "untouched"

\* IMAP STORE +FLAGS \Seen on sequence number id of the mailbox the session
\* is logged in to
MarkSeen(mb, pr, id) ==
  IF Serving(pr) /\ pr.box /\ id <= Len(mb[pr.authUser])
  THEN [mb EXCEPT ![pr.authUser][id].seen = TRUE]
  ELSE mb

\* IMAP STORE +FLAGS \Deleted on sequence number id and EXPUNGE
Expunge(mb, pr, id) ==
  IF Serving(pr) /\ pr.box /\ id <= Len(mb[pr.authUser])
  THEN [mb EXCEPT ![pr.authUser] =
          [i \in 1..(Len(@) - 1) |-> IF i < id THEN @[i] ELSE @[i + 1]]]
  ELSE mb

\* one iteration of 'for (const message of messages)'; io says whether the
\* network operation of the iteration (markAsRead or sendMail) succeeds
ProcessNext(s, io) ==
  /\ ticks[s].pc = "process"
  /\ LET a == ticks[s].acct
         m == Head(ticks[s].msgs)
         pr == providerInstances[ticks[s].provider]
         out == MessageOutcome(trustedSenders, ticks[s].prefs, a, m)
         tk0 == [ticks EXCEPT ![s].msgs = Tail(@), ![s].thrown = "none"]
         tk1 == CASE out = "trusted_sender" -> Logged(tk0, s, "trusted_sender", m.uid)
                  [] out = "kept" -> Logged(tk0, s, "kept", m.uid)
                  [] out = "filter_match" ->
                       LET q == [tk0 EXCEPT ![s].queue = Append(@, m.id)] IN
                       IF io THEN Logged(Logged(q, s, "forward", m.uid), s, "filter_match", m.uid)
                       ELSE [q EXCEPT ![s].thrown = "message"]
                  [] out = "deleted" ->
                       Logged([tk0 EXCEPT ![s].queue = Append(@, m.id)], s, "deleted", m.uid)
                  [] OTHER -> tk0
         M0 == Mgr(connectionPool, providerInstances, waiters, tk1)
         M == IF tk1[s].msgs = <<>> THEN AfterLoop(M0, s) ELSE M0
     IN /\ (out \in {"kept", "filter_match"} \/ io)
        /\ mailbox' = IF out = "kept" /\ io THEN MarkSeen(mailbox, pr, m.id) ELSE mailbox
        /\ Commit(M)
  /\ UNCHANGED <<scheduleVars, oauthVars, filterVars, teardown, now, checkIntervals, trustedSenders, junkMailPreferences, runs, analysis>>

\* the batch delete if a failed deleteMessage ended the run
DeleteNext_StopsAtFailure(s, ok) ==
  /\ ticks[s].pc = "delete"
  /\ LET id == Head(ticks[s].queue)
         pr == providerInstances[ticks[s].provider]
         tk1 == [ticks EXCEPT ![s].queue = Tail(@), ![s].thrown = "none"]
         M0 == Mgr(connectionPool, providerInstances, waiters, tk1)
         M == IF ~ok THEN [M0 EXCEPT !.tk = TickFail(ticks, s)]
              ELSE IF tk1[s].queue = <<>> THEN BeginDisconnect(M0, s) ELSE M0
     IN /\ mailbox' = IF ok THEN Expunge(mailbox, pr, id) ELSE mailbox
        /\ Commit(M)
  /\ UNCHANGED <<scheduleVars, oauthVars, filterVars, teardown, now, checkIntervals,
                 trustedSenders, junkMailPreferences, runs, analysis>>

\* one iteration of 'for (const messageId of messagesToDelete)'
DeleteNext(s, ok) ==
  /\ ticks[s].pc = "delete"
  /\ LET id == Head(ticks[s].queue)
         pr == providerInstances[ticks[s].provider]
         tk1 == [ticks EXCEPT ![s].queue = Tail(@), ![s].thrown = "none"]
         M0 == Mgr(connectionPool, providerInstances, waiters, tk1)
         M == IF tk1[s].queue = <<>> THEN BeginDisconnect(M0, s) ELSE M0
     IN /\ mailbox' = IF ok THEN Expunge(mailbox, pr, id) ELSE mailbox
        /\ Commit(M)
  /\ UNCHANGED <<scheduleVars, oauthVars, filterVars, teardown, now, checkIntervals, trustedSenders, junkMailPreferences, runs, analysis>>

\* the callback of the manager's cleanup timer
CleanupTimer ==
  /\ Commit(Drain(cleanupIdleConnections(CurM, now)))
  /\ UNCHANGED <<scheduleVars, oauthVars, filterVars, teardown, now, checkIntervals, mailbox, trustedSenders, junkMailPreferences, runs, analysis>>

Connecting(tk, s) == tk[s].pc \in {"connect", "reconnect"}

\* time passes.  A connect attempt is raced against connectionTimeout (30 s),
\* which is shorter than idleTimeout (one clock unit), so an attempt never
\* spans more than the idle timeout: the clock moves at most once while an
\* attempt is pending
AdvanceClock ==
  /\ now < MaxTime
  /\ \A s \in Slots : Connecting(ticks, s) => ~ticks[s].waited
  /\ now' = now + 1
  /\ ticks' = [s \in Slots |-> IF Connecting(ticks, s)
                                THEN [ticks[s] EXCEPT !.waited = TRUE] ELSE ticks[s]]
  /\ UNCHANGED <<scheduleVars, oauthVars, filterVars, teardown, connectionPool, providerInstances, waiters, checkIntervals,
                 mailbox, trustedSenders, junkMailPreferences, runs, analysis>>

\* nothing was analysed yet
NoAnalysis == [sender |-> EmptyString, subject |-> <<>>, text |-> <<>>, html |-> <<>>,
               userId |-> Undefined, childAccountId |-> Undefined, result |-> Null]

\* POST /api/analyze-content for the newest message of the junk folder of
\* account a, submitted with or without the account's id
AnalyzeContent(a, childAccountId) ==
  /\ mailbox[a] # <<>>
  /\ childAccountId \in {Undefined, a}
  /\ LET m == mailbox[a][Len(mailbox[a])] IN
     analysis' = [sender |-> m.from, subject |-> m.subject, text |-> m.text,
                  html |-> <<>>, userId |-> UserOf(a),
                  childAccountId |-> childAccountId,
                  result |-> checkContent(trustedSenders, m.subject, m.text, <<>>,
                                          UserOf(a), m.from, childAccountId)]
  /\ UNCHANGED <<scheduleVars, oauthVars, filterVars, teardown, now, connectionPool, providerInstances, waiters, ticks, checkIntervals,
                 mailbox, trustedSenders, junkMailPreferences, runs>>

(* ------------------------- the OAuth service ------------------------- *)
\* a field that a JSON body does not carry reads as undefined
Missing == "undefined"
\* new Date(NaN): the date setSeconds leaves when expires_in is not a number
InvalidDate == -2

\* the credentials of a password account and of an account that signed in
\* with OAuth2, whose access token expires at the given time
PasswordAccount ==
  [auth_method |-> "password", oauth_token |-> Missing,
   oauth_refresh_token |-> Missing, token_expiry |-> Null]
OAuthAccount(expiry) ==
  [auth_method |-> "oauth2", oauth_token |-> "fake-oauth-token",
   oauth_refresh_token |-> "fake-oauth-refresh-token", token_expiry |-> expiry]

\* the auth block connectProvider builds from the stored account
connectionOptions(account) ==
  IF account.auth_method = "oauth2"
  THEN [type |-> "oauth2",
        accessToken |-> IF account.oauth_token = Missing THEN "" ELSE account.oauth_token,
        refreshToken |-> IF account.oauth_refresh_token = Missing THEN ""
                         ELSE account.oauth_refresh_token,
        expiry |-> IF account.token_expiry = Null THEN now ELSE account.token_expiry]
  ELSE [type |-> account.auth_method, accessToken |-> Missing, refreshToken |-> Missing,
        expiry |-> Null]

\* What the token endpoint answers to one POST: the request fails on the
\* network, or a response arrives with a success status or not, whose body
\* parses as JSON or not, and whose JSON carries the fields or lacks them.
TokenResponses ==
  [network : {TRUE}, ok : {TRUE}, json : {TRUE},
   access_token : {"new-access-token", Missing},
   refresh_token : {"new-refresh-token", Missing},
   expires_in : {1, Undefined}]
  \cup [network : {FALSE}, ok : {FALSE}, json : {FALSE}, access_token : {Missing},
        refresh_token : {Missing}, expires_in : {Undefined}]
  \cup [network : {TRUE}, ok : {FALSE}, json : BOOLEAN, access_token : {Missing},
        refresh_token : {Missing}, expires_in : {Undefined}]
  \cup [network : {TRUE}, ok : {TRUE}, json : {FALSE}, access_token : {Missing},
        refresh_token : {Missing}, expires_in : {Undefined}]

\* the try block of both calls: fetch, the status test and response.json()
\* throw into the catch block, which returns null
TokenRequestThrows(response) == ~response.network \/ ~response.ok \/ ~response.json

\* expiresAt.setSeconds(expiresAt.getSeconds() + tokenResponse.expires_in)
ExpiresAt(t, expires_in) == IF expires_in = Undefined THEN InvalidDate ELSE t + expires_in

NoTokens == [returned |-> FALSE, isNull |-> TRUE, accessToken |-> Missing,
             refreshToken |-> Missing, expiresAt |-> Null, response |-> Null, at |-> Null]

\* OAuthService.exchangeCodeForTokens
exchangeCodeForTokens(configured, response, t) ==
  IF ~configured \/ TokenRequestThrows(response)
  THEN [NoTokens EXCEPT !.returned = TRUE, !.response = response, !.at = t]
  ELSE [returned |-> TRUE, isNull |-> FALSE,
        accessToken |-> response.access_token,
        refreshToken |-> IF response.refresh_token = Missing THEN ""
                         ELSE response.refresh_token,
        expiresAt |-> ExpiresAt(t, response.expires_in), response |-> response, at |-> t]

\* OAuthService.refreshAccessToken
refreshAccessToken(configured, response, t) ==
  IF ~configured \/ TokenRequestThrows(response)
  THEN [NoTokens EXCEPT !.returned = TRUE, !.response = response, !.at = t]
  ELSE [returned |-> TRUE, isNull |-> FALSE,
        accessToken |-> response.access_token, refreshToken |-> Missing,
        expiresAt |-> ExpiresAt(t, response.expires_in), response |-> response, at |-> t]

\* a caller exchanges an authorization code: the grant is posted when the
\* provider is configured for OAuth
ExchangeCodeForTokens(configured, response) ==
  /\ tokenRequests' = IF configured
                      THEN tokenRequests \cup {[grant |-> "authorization_code",
                                                token |-> "code"]}
                      ELSE tokenRequests
  /\ tokenResult' = exchangeCodeForTokens(configured, response, now)
  /\ UNCHANGED <<scheduleVars, now, connectionPool, providerInstances, waiters, ticks, checkIntervals,
                 mailbox, trustedSenders, junkMailPreferences, runs, analysis,
                 childAccounts, filterVars, teardown>>

\* a caller renews the access token of an account with its refresh token
RefreshAccessToken(a, configured, response) ==
  /\ childAccounts[a].auth_method = "oauth2"
  /\ tokenRequests' = IF configured
                      THEN tokenRequests \cup
                             {[grant |-> "refresh_token",
                               token |-> childAccounts[a].oauth_refresh_token]}
                      ELSE tokenRequests
  /\ tokenResult' = refreshAccessToken(configured, response, now)
  /\ UNCHANGED <<scheduleVars, now, connectionPool, providerInstances, waiters, ticks, checkIntervals,
                 mailbox, trustedSenders, junkMailPreferences, runs, analysis,
                 childAccounts, filterVars, teardown>>

\* every account signs in with a password and no token was ever requested
InitOAuthService ==
  /\ childAccounts = [a \in Accounts |-> PasswordAccount]
  /\ tokenRequests = {}
  /\ tokenResult = NoTokens

\* no custom rule is stored or loaded
NoFilterCall == [op |-> "none", user_id |-> Null, child_account_id |-> Null,
                 rule_text |-> "", is_regex |-> FALSE, threw |-> FALSE]
InitNoCustomFilters ==
  /\ filterRules = <<>>
  /\ filterRuleIdCounter = 1
  /\ customFilters = NoCustomFilters
  /\ filterCall = NoFilterCall
  /\ teardown = "none"

(* --------------------------- the scheduler --------------------------- *)
\* 'account.check_interval || 15': zero is falsy
intervalMinutes(interval) == IF interval = 0 THEN 15 ELSE interval

\* the state EmailService.init leaves: one timer for each active account,
\* each account with the default interval of the store
InitScheduled ==
  /\ timers = [a \in Accounts |-> IF a \in checkIntervals THEN 1 ELSE 0]
  /\ is_active = [a \in Accounts |-> a \in checkIntervals]
  /\ check_interval = [a \in Accounts |-> 15]
  /\ period = [a \in Accounts |-> IF a \in checkIntervals THEN intervalMinutes(15) ELSE 0]

\* the map of handles and the timers of the runtime
Sched(ci, tm) == [checkIntervals |-> ci, timers |-> tm]

\* scheduleCheck if it did not clear the handle the map holds
scheduleCheck_KeepsPrevious(S, a) ==
  Sched(S.checkIntervals \cup {a}, [S.timers EXCEPT ![a] = @ + 1])

\* EmailService.scheduleCheck: clearInterval of the handle the map holds for
\* the account, setInterval, and the new handle replaces the old one
scheduleCheck(S, a) ==
  LET cleared == IF a \in S.checkIntervals THEN [S.timers EXCEPT ![a] = @ - 1]
                 ELSE S.timers
  IN Sched(S.checkIntervals \cup {a}, [cleared EXCEPT ![a] = @ + 1])

\* EmailService.stopAllChecks: clearInterval of every handle of the map, then
\* the map is emptied
stopAllChecks(S) ==
  Sched({}, [a \in Accounts |-> IF a \in S.checkIntervals THEN S.timers[a] - 1
                                 ELSE S.timers[a]])

\* a call of scheduleCheck for an account
ScheduleCheck(a) ==
  /\ LET S == scheduleCheck(Sched(checkIntervals, timers), a) IN
       /\ checkIntervals' = S.checkIntervals
       /\ timers' = S.timers
  /\ period' = [period EXCEPT ![a] = intervalMinutes(check_interval[a])]
  /\ UNCHANGED <<oauthVars, filterVars, teardown, is_active, check_interval, now,
                 connectionPool, providerInstances, waiters, ticks, mailbox,
                 trustedSenders, junkMailPreferences, runs, analysis>>

\* a call of stopAllChecks
StopAllChecks ==
  /\ LET S == stopAllChecks(Sched(checkIntervals, timers)) IN
       /\ checkIntervals' = S.checkIntervals
       /\ timers' = S.timers
  /\ period' = [a \in Accounts |-> IF a \in checkIntervals THEN 0 ELSE period[a]]
  /\ UNCHANGED <<oauthVars, filterVars, teardown, is_active, check_interval, now,
                 connectionPool, providerInstances, waiters, ticks, mailbox,
                 trustedSenders, junkMailPreferences, runs, analysis>>

\* PATCH /api/child-accounts/:id with an is_active field: the stored record
\* is updated and returned
PatchChildAccount(a, active) ==
  /\ is_active' = [is_active EXCEPT ![a] = active]
  /\ UNCHANGED <<oauthVars, filterVars, teardown, timers, check_interval, period, now,
                 connectionPool, providerInstances, waiters, ticks, checkIntervals,
                 mailbox, trustedSenders, junkMailPreferences, runs, analysis>>

\* PATCH /api/child-accounts/:id with a check_interval field: any integer
\* passes the schema, the stored record is updated and returned
PatchCheckInterval(a, interval) ==
  /\ check_interval' = [check_interval EXCEPT ![a] = interval]
  /\ UNCHANGED <<oauthVars, filterVars, teardown, timers, is_active, period, now,
                 connectionPool, providerInstances, waiters, ticks, checkIntervals,
                 mailbox, trustedSenders, junkMailPreferences, runs, analysis>>

(* ------------------------ the initial state -------------------------- *)
Msg(uid, from, subject, text) ==
  [uid |-> uid, from |-> from, subject |-> subject, text |-> text, seen |-> FALSE]

Mum == Email("mum@home.org", FALSE, FALSE)
Spammer == Email("promo@spam.biz", FALSE, FALSE)

\* the junk folder of account 1 holds an offending message of a trusted
\* sender and one of a stranger, the other junk folders are empty
InitMailbox ==
  [a \in Accounts |->
     IF a = 1 THEN <<Msg(11, [Mum EXCEPT !.up = TRUE], <<"VIAGRA">>, <<"hello">>),
                     Msg(12, Spammer, <<"hello">>, <<"Casino">>)>>
     ELSE <<>>]

InitTrusted == {[user_id |-> 1, child_account_id |-> Null, email_address |-> Mum]}

Init ==
  /\ now = 0
  /\ connectionPool = <<>>
  /\ providerInstances = [p \in ProviderTypes |-> NoProvider]
  /\ waiters = {}
  /\ ticks = [s \in Slots |-> IdleTick]
  /\ checkIntervals = Accounts
  /\ mailbox = InitMailbox
  /\ trustedSenders = InitTrusted
  /\ junkMailPreferences = <<>>
  /\ runs = 0
  /\ analysis = NoAnalysis
  /\ InitOAuthService
  /\ InitNoCustomFilters
  /\ InitScheduled

Next ==
  \/ \E a \in Accounts : TimerFire(a)
  \/ \E a \in Accounts : CheckNow(a)
  \/ \E s \in Slots, o \in ConnectOutcomes : ConnectDone(s, o)
  \/ \E s \in Slots, o \in ConnectOutcomes : ReconnectDone(s, o)
  \/ \E p \in ProviderTypes, o \in {"ok", "error"} : LateConnect(p, o)
  \/ \E p \in ProviderTypes, g \in 0..MaxAge : ClientEnd(p, g)
  \/ \E s \in Slots, ok \in BOOLEAN : SelectFolder(s, ok)
  \/ \E s \in Slots, ok \in BOOLEAN : ListMessages(s, ok)
  \/ \E s \in Slots, io \in BOOLEAN : ProcessNext(s, io)
  \/ \E s \in Slots, ok \in BOOLEAN : DeleteNext(s, ok)
  \/ CleanupTimer
  \/ AdvanceClock

Spec == Init /\ [][Next]_vars

(* -------------------- the pool at capacity ---------------------------- *)
\* A state the program reaches from Init: accounts 2 and 3 were scanned, their
\* junk folders were empty, so both runs returned before the disconnect and
\* left connected entries; the shared session is logged in as account 3.
\* Each entry was last used in the current clock unit or in the one before.
InitFull ==
  /\ now = 1
  /\ \E t2 \in 0..1, t3 \in 0..1 :
       connectionPool = <<PoolEntry(2, t2, TRUE, FALSE), PoolEntry(3, t3, TRUE, FALSE)>>
  /\ providerInstances =
       [p \in ProviderTypes |->
          [NoProvider EXCEPT !.created = TRUE, !.connectionState = TRUE,
                             !.client = "open", !.authUser = 3, !.box = TRUE]]
  /\ waiters = {}
  /\ ticks = [s \in Slots |-> IdleTick]
  /\ checkIntervals = Accounts
  /\ mailbox = InitMailbox
  /\ trustedSenders = InitTrusted
  /\ junkMailPreferences = <<>>
  /\ runs = 0
  /\ analysis = NoAnalysis
  /\ InitOAuthService
  /\ InitNoCustomFilters
  /\ InitScheduled

SpecFull == InitFull /\ [][Next]_vars

(* ------------------- one scan of a drawn junk folder ------------------ *)
\* the senders and the trusted addresses the classifier is tried on: an
\* address, the same in upper case and with surrounding blanks, another
\* address, the empty string and a string of blanks
Senders ==
  {Mum, [Mum EXCEPT !.up = TRUE], [Mum EXCEPT !.pad = TRUE], Spammer, EmptyString,
   Email("", FALSE, TRUE)}

TrustedDomain ==
  [user_id : {1, 2}, child_account_id : {Null, 1, 2},
   email_address : {Mum, [Mum EXCEPT !.up = TRUE], [Mum EXCEPT !.pad = TRUE], EmptyString}]

\* The store holds no trusted sender or one of any user, scope and address;
\* the junk folder of account 1 holds one unread message of any sender whose
\* subject is offending or harmless.
InitFilter ==
  /\ now = 0
  /\ connectionPool = <<>>
  /\ providerInstances = [p \in ProviderTypes |-> NoProvider]
  /\ waiters = {}
  /\ ticks = [s \in Slots |-> IdleTick]
  /\ checkIntervals = {1}
  /\ \E from \in Senders, subject \in {<<"VIAGRA">>, <<"hello">>} :
       mailbox = [a \in Accounts |-> IF a = 1 THEN <<Msg(11, from, subject, <<"hello">>)>>
                                      ELSE <<>>]
  /\ trustedSenders \in {{}} \cup {{t} : t \in TrustedDomain}
  /\ junkMailPreferences = <<>>
  /\ runs = 0
  /\ analysis = NoAnalysis
  /\ InitOAuthService
  /\ InitNoCustomFilters
  /\ InitScheduled

\* the timer of account 1 fires and its runs meet no network failure; the
\* message is submitted for analysis
NextFilter ==
  \/ TimerFire(1)
  \/ \E c \in {Undefined, 1} : AnalyzeContent(1, c)
  \/ \E s \in Slots : ConnectDone(s, "ok")
  \/ \E p \in ProviderTypes, g \in 0..MaxAge : ClientEnd(p, g)
  \/ \E s \in Slots : SelectFolder(s, TRUE)
  \/ \E s \in Slots : ListMessages(s, TRUE)
  \/ \E s \in Slots, io \in BOOLEAN : ProcessNext(s, io)
  \/ \E s \in Slots, ok \in BOOLEAN : DeleteNext(s, ok)

SpecFilter == InitFilter /\ [][NextFilter]_vars

(* ------------------- an account that signs in with OAuth2 ------------- *)
\* the stored access token is expired when its expiry is not after the clock
TokenExpired(account, t) ==
  account.auth_method = "oauth2" /\ account.token_expiry # Null /\ account.token_expiry <= t

\* Account 1 signs in with a password or with OAuth2; its stored access token
\* expires now or after the last clock unit of the model.
InitOAuth ==
  /\ now = 1
  /\ connectionPool = <<>>
  /\ providerInstances = [p \in ProviderTypes |-> NoProvider]
  /\ waiters = {}
  /\ ticks = [s \in Slots |-> IdleTick]
  /\ checkIntervals = {1}
  /\ mailbox = InitMailbox
  /\ trustedSenders = InitTrusted
  /\ junkMailPreferences = <<>>
  /\ runs = 0
  /\ analysis = NoAnalysis
  /\ \E acc \in {PasswordAccount, OAuthAccount(1), OAuthAccount(MaxTime + 1)} :
       childAccounts = [a \in Accounts |-> IF a = 1 THEN acc ELSE PasswordAccount]
  /\ tokenRequests = {}
  /\ tokenResult = NoTokens
  /\ InitNoCustomFilters
  /\ InitScheduled

\* the timer of account 1 fires while callers use the OAuth service
NextOAuth ==
  \/ TimerFire(1)
  \/ \E s \in Slots, o \in ConnectOutcomes : ConnectDone(s, o)
  \/ \E s \in Slots, o \in ConnectOutcomes : ReconnectDone(s, o)
  \/ \E p \in ProviderTypes, g \in 0..MaxAge : ClientEnd(p, g)
  \/ \E s \in Slots : SelectFolder(s, TRUE)
  \/ \E s \in Slots : ListMessages(s, TRUE)
  \/ \E s \in Slots : ProcessNext(s, TRUE)
  \/ \E s \in Slots : DeleteNext(s, TRUE)
  \/ \E c \in BOOLEAN, r \in TokenResponses : ExchangeCodeForTokens(c, r)
  \/ \E c \in BOOLEAN, r \in TokenResponses : RefreshAccessToken(1, c, r)

SpecOAuth == InitOAuth /\ [][NextOAuth]_vars

(* ------------------- drawn junk-mail preferences ----------------------- *)
\* the records the store may hold at a given id: of user 1 or 2, for all of
\* the user's accounts (null) or for account 1 or 2
PreferencesDomain(id) ==
  {JunkMailPreferences(id, u, c, FALSE, d) : u \in {1, 2}, c \in {Null, 1, 2}, d \in BOOLEAN}

\* The store holds up to MaxPrefs preference records, in the order of their
\* creation.
InitPrefs ==
  /\ now = 0
  /\ connectionPool = <<>>
  /\ providerInstances = [p \in ProviderTypes |-> NoProvider]
  /\ waiters = {}
  /\ ticks = [s \in Slots |-> IdleTick]
  /\ checkIntervals = {1}
  /\ mailbox = InitMailbox
  /\ trustedSenders = {}
  /\ \E n \in 0..MaxPrefs :
       junkMailPreferences \in {q \in [1..n -> UNION {PreferencesDomain(i) : i \in 1..n}] :
                                  \A i \in 1..n : q[i].id = i}
  /\ runs = 0
  /\ analysis = NoAnalysis
  /\ InitOAuthService
  /\ InitNoCustomFilters
  /\ InitScheduled

\* the timer of account 1 fires and its runs meet no network failure
NextPrefs ==
  \/ TimerFire(1)
  \/ \E s \in Slots : ConnectDone(s, "ok")
  \/ \E p \in ProviderTypes, g \in 0..MaxAge : ClientEnd(p, g)
  \/ \E s \in Slots : SelectFolder(s, TRUE)
  \/ \E s \in Slots : ListMessages(s, TRUE)
  \/ \E s \in Slots : ProcessNext(s, TRUE)
  \/ \E s \in Slots : DeleteNext(s, TRUE)

SpecPrefs == InitPrefs /\ [][NextPrefs]_vars

(* ------------------------ custom filter rules ------------------------- *)
\* the rule texts that are registered: a word in mixed case, a word in lower
\* case and a pattern that does not compile
RuleTextDomain == {"Secret", "hello", "("}
\* the subjects that are submitted for analysis
Subjects == {<<"SECRETS">>, <<"Hello">>, <<"VIAGRA">>, <<"other">>}

FilterCall(op, userId, childAccountId, text, isRegex, threw) ==
  [op |-> op, user_id |-> userId, child_account_id |-> childAccountId,
   rule_text |-> text, is_regex |-> isRegex, threw |-> threw]

\* POST /api/filter-rules with a well-formed body: the rule is stored and
\* answered with status 201; the classifier is not told
PostFilterRule(userId, childAccountId, text, isRegex) ==
  /\ filterRuleIdCounter <= MaxRules
  /\ filterRules' = createFilterRule(filterRules, filterRuleIdCounter, userId,
                                     childAccountId, text, isRegex)
  /\ filterRuleIdCounter' = filterRuleIdCounter + 1
  /\ filterCall' = FilterCall("post", userId, childAccountId, text, isRegex, FALSE)
  /\ UNCHANGED <<scheduleVars, oauthVars, teardown, customFilters, now, connectionPool, providerInstances, waiters,
                 ticks, checkIntervals, mailbox, trustedSenders, junkMailPreferences,
                 runs, analysis>>

\* ContentFilter.addCustomFilter: the rule is stored first, then compiled
\* and added to the user's maps; a pattern that does not compile throws
AddCustomFilter(userId, text, isRegex) ==
  /\ filterRuleIdCounter <= MaxRules
  /\ filterRules' = createFilterRule(filterRules, filterRuleIdCounter, userId, Null,
                                     text, isRegex)
  /\ filterRuleIdCounter' = filterRuleIdCounter + 1
  /\ customFilters' = addCustomFilter(customFilters, userId, text, isRegex)
  /\ filterCall' = FilterCall("add", userId, Null, text, isRegex,
                              isRegex /\ RegExpThrows(text))
  /\ UNCHANGED <<scheduleVars, oauthVars, teardown, now, connectionPool, providerInstances, waiters,
                 ticks, checkIntervals, mailbox, trustedSenders, junkMailPreferences,
                 runs, analysis>>

\* ContentFilter.loadCustomFilters
LoadCustomFilters ==
  /\ customFilters' = loadCustomFilters(filterRules, customFilters)
  /\ filterCall' = FilterCall("load", Null, Null, "", FALSE, FALSE)
  /\ UNCHANGED <<scheduleVars, oauthVars, teardown, filterRules, filterRuleIdCounter, now, connectionPool, providerInstances, waiters,
                 ticks, checkIntervals, mailbox, trustedSenders, junkMailPreferences,
                 runs, analysis>>

\* POST /api/analyze-content with a subject and no sender, for a user and
\* with or without an account of that user
AnalyzeSubject(userId, childAccountId, subject) ==
  /\ analysis' = [sender |-> EmptyString, subject |-> subject, text |-> <<>>,
                  html |-> <<>>, userId |-> userId,
                  childAccountId |-> childAccountId,
                  result |-> checkContent(trustedSenders, subject, <<>>, <<>>, userId,
                                          EmptyString, childAccountId)]
  /\ UNCHANGED <<scheduleVars, oauthVars, filterVars, teardown, now, connectionPool, providerInstances, waiters,
                 ticks, checkIntervals, mailbox, trustedSenders, junkMailPreferences,
                 runs>>

\* rules are registered by both paths and loaded while subjects are analysed
NextRules ==
  \/ \E u \in Users, c \in {Null, 1}, t \in RuleTextDomain, x \in BOOLEAN :
       PostFilterRule(u, c, t, x)
  \/ \E u \in Users, t \in RuleTextDomain, x \in BOOLEAN : AddCustomFilter(u, t, x)
  \/ LoadCustomFilters
  \/ \E u \in Users, c \in {Undefined, 1, 2}, t \in Subjects : AnalyzeSubject(u, c, t)

SpecRules == Init /\ [][NextRules]_vars

(* ------------------- rules are created and deleted -------------------- *)
\* DELETE /api/filter-rules/:id of a stored rule: the rule leaves the store
\* and the request is answered with status 204; the classifier is not told.
\* An id that is not stored is answered with 404 and changes nothing.
DeleteFilterRule(id) ==
  /\ \E i \in 1..Len(filterRules) : filterRules[i].id = id
  /\ filterRules' = deleteFilterRule(filterRules, id)
  /\ filterCall' = FilterCall("delete", Null, Null, "", FALSE, FALSE)
  /\ UNCHANGED <<scheduleVars, oauthVars, teardown, filterRuleIdCounter, customFilters, now,
                 connectionPool, providerInstances, waiters, ticks, checkIntervals,
                 mailbox, trustedSenders, junkMailPreferences, runs, analysis>>

\* literal rules are created by both paths and deleted, the classifier may
\* reload and subjects are analysed
NextRuleStore ==
  \/ \E u \in Users, t \in RuleTextDomain : PostFilterRule(u, Null, t, FALSE)
  \/ \E u \in Users, t \in RuleTextDomain : AddCustomFilter(u, t, FALSE)
  \/ \E id \in 1..MaxRules : DeleteFilterRule(id)
  \/ LoadCustomFilters
  \/ \E u \in Users, t \in Subjects : AnalyzeSubject(u, Undefined, t)

SpecRuleStore == Init /\ [][NextRuleStore]_vars

(* --------------------- the periodic sweep is fair ---------------------- *)
\* the sweep would change the state: ENABLED <<CleanupTimer>>_vars
SweepChanges ==
  LET M == Drain(cleanupIdleConnections(CurM, now))
  IN <<M.pool, M.prov, M.w, M.tk>> # <<connectionPool, providerInstances, waiters, ticks>>

\* The manager's setInterval timer keeps firing, and a client that was told
\* to end emits its 'end' event: the sweep and the 'end' event of every
\* client generation are weakly fair.  The first conjunct is
\* WF_vars(CleanupTimer) with its enabling condition written out.
SweepFairness ==
  /\ ([]<>~SweepChanges \/ []<><<CleanupTimer>>_vars)
  /\ \A p \in ProviderTypes, g \in 0..MaxAge : WF_vars(ClientEnd(p, g))

\* the pool holds the entries of accounts 2 and 3; only the timer of account
\* 1 is live, so neither entry is asked for again
InitSweep ==
  /\ now = 1
  /\ \E t2 \in 0..1, t3 \in 0..1 :
       connectionPool = <<PoolEntry(2, t2, TRUE, FALSE), PoolEntry(3, t3, TRUE, FALSE)>>
  /\ providerInstances =
       [p \in ProviderTypes |->
          [NoProvider EXCEPT !.created = TRUE, !.connectionState = TRUE,
                             !.client = "open", !.authUser = 3, !.box = TRUE]]
  /\ waiters = {}
  /\ ticks = [s \in Slots |-> IdleTick]
  /\ checkIntervals = {1}
  /\ mailbox = InitMailbox
  /\ trustedSenders = InitTrusted
  /\ junkMailPreferences = <<>>
  /\ runs = 0
  /\ analysis = NoAnalysis
  /\ InitOAuthService
  /\ InitNoCustomFilters
  /\ InitScheduled

NextSweep ==
  \/ TimerFire(1)
  \/ \E s \in Slots, o \in ConnectOutcomes : ConnectDone(s, o)
  \/ \E s \in Slots, o \in ConnectOutcomes : ReconnectDone(s, o)
  \/ \E p \in ProviderTypes, o \in {"ok", "error"} : LateConnect(p, o)
  \/ \E p \in ProviderTypes, g \in 0..MaxAge : ClientEnd(p, g)
  \/ \E s \in Slots, ok \in BOOLEAN : SelectFolder(s, ok)
  \/ \E s \in Slots, ok \in BOOLEAN : ListMessages(s, ok)
  \/ \E s \in Slots, io \in BOOLEAN : ProcessNext(s, io)
  \/ \E s \in Slots, ok \in BOOLEAN : DeleteNext(s, ok)
  \/ CleanupTimer
  \/ AdvanceClock

SpecSweep == InitSweep /\ [][NextSweep]_vars /\ SweepFairness

(* ------------------- a connect that may never complete ---------------- *)
\* the timer that connectProvider races the connect against fires when the
\* connect has not completed
ConnectFairness == \A s \in Slots : WF_vars(ConnectDone(s, "timeout"))

\* the timer of account 1 fires; a connect succeeds, fails or is overtaken
\* by the timeout, the other network operations succeed
NextConnect ==
  \/ TimerFire(1)
  \/ \E s \in Slots, o \in ConnectOutcomes : ConnectDone(s, o)
  \/ \E s \in Slots, o \in ConnectOutcomes : ReconnectDone(s, o)
  \/ \E p \in ProviderTypes, o \in {"ok", "error"} : LateConnect(p, o)
  \/ \E p \in ProviderTypes, g \in 0..MaxAge : ClientEnd(p, g)
  \/ \E s \in Slots : SelectFolder(s, TRUE)
  \/ \E s \in Slots : ListMessages(s, TRUE)
  \/ \E s \in Slots : ProcessNext(s, TRUE)
  \/ \E s \in Slots : DeleteNext(s, TRUE)
  \/ AdvanceClock

SpecConnect == Init /\ [][NextConnect]_vars /\ ConnectFairness

(* ------------------------ the polling interval ------------------------ *)
\* the intervals a client may store for an account, in minutes
IntervalDomain == {0, 1, 5, 15, 30}

\* intervals are stored and the accounts are scheduled again, as init does
\* when the service starts
NextInterval ==
  \/ \E a \in Accounts, i \in IntervalDomain : PatchCheckInterval(a, i)
  \/ \E a \in Accounts : ScheduleCheck(a)
  \/ StopAllChecks

SpecInterval == Init /\ [][NextInterval]_vars

(* ------------------------- the teardown ------------------------------- *)
\* the timer of account 1 fires, the sweep runs and disconnectAll is called
NextTeardown ==
  \/ TimerFire(1)
  \/ \E s \in Slots, o \in ConnectOutcomes : ConnectDone(s, o)
  \/ \E s \in Slots, o \in ConnectOutcomes : ReconnectDone(s, o)
  \/ \E p \in ProviderTypes, o \in {"ok", "error"} : LateConnect(p, o)
  \/ \E p \in ProviderTypes, g \in 0..MaxAge : ClientEnd(p, g)
  \/ \E s \in Slots, ok \in BOOLEAN : SelectFolder(s, ok)
  \/ \E s \in Slots, ok \in BOOLEAN : ListMessages(s, ok)
  \/ \E s \in Slots, io \in BOOLEAN : ProcessNext(s, io)
  \/ \E s \in Slots, ok \in BOOLEAN : DeleteNext(s, ok)
  \/ CleanupTimer
  \/ AdvanceClock
  \/ DisconnectAll

SpecTeardown == Init /\ [][NextTeardown]_vars

(* ----------------------------- claims -------------------------------- *)
\* the entries of the pool that are marked connected
LiveEntries(pool) == {i \in 1..Len(pool) : pool[i].isConnected}

\* C1: the pool never holds more than maxPoolSize entries, and so never more
\* than maxPoolSize live connections, however the calls interleave.
C1_PoolWithinMaxPoolSize ==
  /\ PoolSize(connectionPool) <= maxPoolSize
  /\ Cardinality(LiveEntries(connectionPool)) <= maxPoolSize

\* the run in slot s holds a session the pool handed out and works on it
UsesSession(tk, s) == tk[s].pc \in {"select", "list", "process", "delete"}

\* C2: when the entry of an account y leaves the pool while the run of another
\* account is using that account's connected entry, which is not idle itself,
\* the other account's entry stays in the pool, marked connected, and its
\* session stays connected.
C2_EvictionSparesOtherAccounts ==
  [][\A s \in Slots, y \in Accounts :
       (/\ UsesSession(ticks, s)
        /\ ticks[s].acct # y
        /\ PoolHas(connectionPool, ticks[s].acct)
        /\ PoolGet(connectionPool, ticks[s].acct).isConnected
        /\ now - PoolGet(connectionPool, ticks[s].acct).lastUsed <= idleTimeout
        /\ providerInstances[ticks[s].provider].connectionState
        /\ PoolHas(connectionPool, y)
        /\ ~PoolHas(connectionPool', y))
       => (/\ PoolHas(connectionPool', ticks[s].acct)
           /\ PoolGet(connectionPool', ticks[s].acct).isConnected
           /\ providerInstances'[ticks[s].provider].connectionState)]_vars

\* C3: no account has two runs started by its timer in flight at the same
\* time, and no account has two runs, however started, in their batch delete
\* at the same time.
C3_SingleFlightPerAccount ==
  \A s1 \in Slots, s2 \in Slots :
    (s1 # s2 /\ Running(ticks, s1) /\ Running(ticks, s2)
     /\ ticks[s1].acct = ticks[s2].acct)
    => /\ ~(ticks[s1].origin = "timer" /\ ticks[s2].origin = "timer")
       /\ ~(ticks[s1].pc = "delete" /\ ticks[s2].pc = "delete")

\* a sender matches a trusted sender of the user that is scoped globally or to
\* the account: the addresses are equal once the sender is trimmed and case
\* is ignored
SenderMatches(ts, from, userId, childAccountId) ==
  \E t \in ts :
    /\ t.user_id = userId
    /\ t.child_account_id = Null \/ t.child_account_id = childAccountId
    /\ LowerEmail(t.email_address) = TrimEmail(LowerEmail(from))

\* the messages a run listed that it queued for deletion though their sender
\* matches a trusted sender
QueuedTrusted(tk, ts, s) ==
  {j \in 1..Len(tk[s].listed) :
     /\ SenderMatches(ts, tk[s].listed[j].from, UserOf(tk[s].acct), tk[s].acct)
     /\ tk[s].listed[j].id \in Range(tk[s].queue)}

StartedSlot == IF runs' = runs + 1 THEN LowestFree(ticks) ELSE 0

\* C5: a call of getProviderForAccount for an account whose pool entry is
\* marked connected hands out the session of that entry, starts no connect
\* attempt and changes nothing but the entry's lastUsed; so do two such calls
\* in a row, which get the same session.
C5_ConnectedEntryIsReused ==
  [][\A a \in Accounts :
       (/\ StartedSlot # 0
        /\ ticks'[StartedSlot].acct = a
        /\ PoolHas(connectionPool, a)
        /\ PoolGet(connectionPool, a).isConnected)
       => (/\ ticks'[StartedSlot].pc = "select"
           /\ ticks'[StartedSlot].provider = PoolGet(connectionPool, a).providerType
           /\ providerInstances' = providerInstances
           /\ waiters' = waiters
           /\ connectionPool' =
                PoolSet(connectionPool, [PoolGet(connectionPool, a) EXCEPT !.lastUsed = now]))]_vars

\* two calls in a row for account 2, whose entry is marked connected: both
\* runs hold the session, which is still the client that was open before
C5_TwoCallsInARow ==
  /\ runs = 2
  /\ \A s \in Slots : ticks[s].acct = 2 /\ ticks[s].pc = "select"
                      /\ ticks[s].provider = ProviderTypeOf(2)
  /\ PoolHas(connectionPool, 2)
  /\ PoolGet(connectionPool, 2).isConnected
  /\ PoolGet(connectionPool, 2).lastUsed = now

\* C6: an account never has two sessions being created for it at the same
\* time.
C6_OneCreationPerAccount ==
  \A s1 \in Slots, s2 \in Slots :
    (s1 # s2 /\ ticks[s1].pc = "connect" /\ ticks[s2].pc = "connect")
      => ticks[s1].acct # ticks[s2].acct

\* the accounts a disconnectProvider call is waiting to remove
PendingEvictions(w) == {x.id : x \in {y \in w : y.kind = "op"}}

\* the entry with the least lastUsed among all entries, the first in map
\* order when several have it
LeastRecentlyUsed(pool) ==
  pool[CHOOSE i \in 1..Len(pool) :
         \A k \in 1..Len(pool) : pool[i].lastUsed < pool[k].lastUsed
                                 \/ (pool[i].lastUsed = pool[k].lastUsed /\ i <= k)].accountId

\* C7: a call for an account without an entry that finds the pool at capacity
\* and no entry idle evicts exactly one entry, the least recently used of all;
\* and that entry has left the pool before the new entry is inserted.
C7_EvictsOldestThenInserts ==
  [][/\ \A a \in Accounts :
          (/\ StartedSlot # 0
           /\ ticks'[StartedSlot].acct = a
           /\ ~PoolHas(connectionPool, a)
           /\ PoolSize(connectionPool) = maxPoolSize
           /\ IdleIds(connectionPool, now) = <<>>
           /\ PendingEvictions(waiters) = {})
          => LET o == LeastRecentlyUsed(connectionPool) IN
             /\ ~PoolHas(connectionPool', o) \/ o \in PendingEvictions(waiters')
             /\ \A x \in PoolKeys(connectionPool) \ {o} :
                  PoolHas(connectionPool', x) /\ x \notin PendingEvictions(waiters')
     /\ \A a \in Accounts :
          (~PoolHas(connectionPool, a) /\ PoolHas(connectionPool', a))
          => (PoolSize(connectionPool) < maxPoolSize /\ PendingEvictions(waiters) = {})]_vars

C9_RunNeverDisconnects ==
  /\ \A w \in waiters : w.kind # "tick"
  /\ \A s \in Slots : ticks[s].pc # "disconnect"

\* the run in slot s throws in this step
Throws(s) ==
  /\ Running(ticks, s)
  /\ ticks'[s].thrown # "none"
  /\ ticks'[s].pc # ticks[s].pc \/ ticks'[s].msgs # ticks[s].msgs

\* C10: an exception in a run leaves every timer armed; an exception while one
\* message is processed does not end the run, an exception of the run itself
\* ends it with an 'error' log entry.
C10_FailuresKeepTimers ==
  [][\A s \in Slots :
       Throws(s)
       => /\ checkIntervals' = checkIntervals
          /\ ticks[s].acct \in checkIntervals'
          /\ ticks'[s].thrown = "message"
               => ticks'[s].pc \in {"process", "delete", "disconnect", "done"}
          /\ ticks'[s].thrown = "tick"
               => (ticks'[s].pc = "failed"
                   /\ ticks'[s].log[Len(ticks'[s].log)].activity_type = "error")]_vars

\* the timer of an account fired again after a run it had started failed: the
\* failed run left the account's entry disconnected and the next timer run is
\* reconnecting it
C10_TimerFiredAfterFailure ==
  \E x \in Slots, y \in Slots :
    /\ ticks[x].pc = "failed" /\ ticks[x].origin = "timer" /\ ticks[x].thrown = "tick"
    /\ ticks[y].pc = "reconnect" /\ ticks[y].origin = "timer"
    /\ ticks[y].acct \in checkIntervals

\* C11: when a run starts to connect an account that signs in with OAuth2 and
\* whose stored access token is expired, a refresh_token grant for the
\* account's refresh token has been posted to the token endpoint.
C11_ExpiredTokenIsRefreshed ==
  \A s \in Slots :
    (/\ ticks[s].pc \in {"connect", "reconnect"}
     /\ TokenExpired(childAccounts[ticks[s].acct], now))
    => [grant |-> "refresh_token",
        token |-> childAccounts[ticks[s].acct].oauth_refresh_token] \in tokenRequests

\* C12: the preferences a run uses for account A of user U are a record of
\* A when the store holds one, otherwise a record of U with null account
\* scope when the store holds one, otherwise none.
C12_ClosestScopePreferences ==
  \A s \in Slots :
    ticks[s].acct # 0 =>
      LET a == ticks[s].acct
          q == junkMailPreferences
          own == {i \in 1..Len(q) : q[i].user_id = UserOf(a) /\ q[i].child_account_id = a}
          global == {i \in 1..Len(q) :
                       q[i].user_id = UserOf(a) /\ q[i].child_account_id = Null}
      IN IF own # {} THEN \E i \in own : ticks[s].prefs = q[i]
         ELSE IF global # {} THEN \E i \in global : ticks[s].prefs = q[i]
         ELSE ticks[s].prefs = NoPreferences

\* C13: registering a regex rule whose pattern does not compile fails, and
\* the store never holds such a rule.
C13_UncompilableRegexIsRejected ==
  /\ (filterCall.op \in {"post", "add"} /\ filterCall.is_regex
      /\ RegExpThrows(filterCall.rule_text)) => filterCall.threw
  /\ \A i \in 1..Len(filterRules) :
       ~(filterRules[i].is_regex /\ RegExpThrows(filterRules[i].rule_text))

\* a stored rule that can be applied hits the subject: a literal rule or a
\* regex rule that compiles, whose text in lower case occurs in the subject
\* in lower case
RuleHits(rule, subject) ==
  /\ ~(rule.is_regex /\ RegExpThrows(rule.rule_text))
  /\ Includes(LowerText(subject), LowerWord(rule.rule_text))

\* a default filter, literal or regex, hits the subject
DefaultHits(subject) ==
  \/ \E i \in 1..Len(defaultFilters) :
       Includes(LowerText(subject), LowerWord(defaultFilters[i]))
  \/ \E i \in 1..Len(defaultRegexFilters) :
       RegexTest(LowerText(subject), defaultRegexFilters[i])

\* C14: once the stored rules were loaded, loading did not raise, and every
\* stored rule of a user that is literal or compiles is applied by
\* checkContent to that user's content, whatever rules that do not compile
\* are stored before or after it.
C14_LoadSkipsUncompilableRegex ==
  filterCall.op = "load" =>
    /\ ~filterCall.threw
    /\ \A i \in 1..Len(filterRules), t \in Subjects :
         RuleHits(filterRules[i], t)
         => checkContent(trustedSenders, t, <<>>, <<>>, filterRules[i].user_id,
                         EmptyString, Undefined).isInappropriate

\* the rules were loaded with a regex rule that does not compile stored
\* before a rule of the same user that compiles, and a subject of that user
\* which only the later rule hits was analysed and found inappropriate
C14_RuleAfterBadRegexApplied ==
  /\ filterCall.op = "load"
  /\ analysis.userId # Undefined
  /\ analysis.result.isInappropriate
  /\ \E i \in 1..Len(filterRules), j \in 1..Len(filterRules) :
       /\ i < j
       /\ filterRules[i].user_id = analysis.userId
       /\ filterRules[j].user_id = analysis.userId
       /\ filterRules[i].is_regex /\ RegExpThrows(filterRules[i].rule_text)
       /\ filterRules[j].is_regex
       /\ RuleHits(filterRules[j], analysis.subject)

\* C15: content of account c of user u that no default filter hits is found
\* inappropriate only when a stored rule of user u hits it whose account
\* scope is c or null.
C15_RulesKeepTheirScope ==
  (/\ analysis.userId # Undefined
   /\ analysis.childAccountId # Undefined
   /\ ~DefaultHits(analysis.subject)
   /\ analysis.result.isInappropriate)
  => \E i \in 1..Len(filterRules) :
       /\ filterRules[i].user_id = analysis.userId
       /\ filterRules[i].child_account_id \in {Null, analysis.childAccountId}
       /\ RuleHits(filterRules[i], analysis.subject)

\* the classifier's verdict on a subject of user u
Flagged(u, subject) ==
  checkContent(trustedSenders, subject, <<>>, <<>>, u, EmptyString, Undefined).isInappropriate

\* C16: literal rules match as case-insensitive substrings.  A subject is
\* found inappropriate when the lower-case text of a default filter occurs in
\* its lower-case text; when the literal rule just added for the user, or
\* after a load any stored literal rule of the user, occurs so, whatever case
\* it was registered in; and only when a default filter or a stored rule of
\* the user hits it.
C16_LiteralRulesIgnoreCase ==
  \A u \in Users, t \in Subjects :
    /\ (\E i \in 1..Len(defaultFilters) :
          Includes(LowerText(t), LowerWord(defaultFilters[i]))) => Flagged(u, t)
    /\ (/\ filterCall.op = "add" /\ ~filterCall.is_regex /\ filterCall.user_id = u
        /\ Includes(LowerText(t), LowerWord(filterCall.rule_text))) => Flagged(u, t)
    /\ (/\ filterCall.op = "load"
        /\ \E i \in 1..Len(filterRules) :
             /\ filterRules[i].user_id = u /\ ~filterRules[i].is_regex
             /\ Includes(LowerText(t), LowerWord(filterRules[i].rule_text)))
       => Flagged(u, t)
    /\ Flagged(u, t) =>
         \/ DefaultHits(t)
         \/ \E i \in 1..Len(filterRules) :
              filterRules[i].user_id = u /\ RuleHits(filterRules[i], t)

\* a literal rule was added in mixed case and a subject of its user that
\* contains the word in upper case was then found inappropriate by it
C16_MixedCaseRuleHitUpperCaseText ==
  /\ filterCall.op = "add" /\ ~filterCall.is_regex /\ filterCall.rule_text = "Secret"
  /\ analysis.userId = filterCall.user_id
  /\ analysis.subject = <<"SECRETS">>
  /\ analysis.result.isInappropriate
  /\ analysis.result.reason = "secret"

\* C17: a call of the OAuth service returns null when the request failed on
\* the network, the status was not a success or the token response was
\* malformed (no JSON, or JSON without access_token or expires_in); a result
\* that is not null carries the access token of the response and expires
\* expires_in after the time of the call.
C17_TokenCallsFailClosed ==
  tokenResult.returned =>
    LET r == tokenResult.response IN
    /\ (\/ ~r.network \/ ~r.ok \/ ~r.json
        \/ r.access_token = Missing \/ r.expires_in = Undefined) => tokenResult.isNull
    /\ ~tokenResult.isNull =>
         /\ tokenResult.accessToken # Missing
         /\ tokenResult.accessToken = r.access_token
         /\ r.expires_in # Undefined
         /\ tokenResult.expiresAt = tokenResult.at + r.expires_in

\* C18: an account whose last connection attempt failed (its pool entry is
\* not connected) is reported by getConnectionErrors with an error.
C18_FailedConnectIsReported ==
  \A i \in 1..Len(connectionPool) :
    ~connectionPool[i].isConnected
    => connectionPool[i].accountId \in getConnectionErrors(connectionPool)

\* the entry of account a was last used longer ago than the idle timeout
IdleEntry(a) ==
  PoolHas(connectionPool, a) /\ now - PoolGet(connectionPool, a).lastUsed > idleTimeout

C20_TeardownLeavesNothingConnected ==
  [][/\ (teardown # "done" /\ teardown' = "done")
        => /\ connectionPool' = <<>>
           /\ \A i \in 1..Len(connectionPool) :
                ~providerInstances'[connectionPool[i].providerType].connectionState
     /\ \A a \in Accounts :
          (a \in PendingEvictions(waiters) /\ a \notin PendingEvictions(waiters'))
          => /\ ~PoolHas(connectionPool', a)
             /\ ~providerInstances'[ProviderTypeOf(a)].connectionState]_vars

(* ------------------- the stages of the classifier -------------------- *)
\* the requests the classifier is tried on: subjects and texts that hit a
\* default keyword, a custom rule or nothing, HTML bodies with a keyword in
\* the text or in an alt attribute, a trusted sender or a stranger
ContentSubjects == {<<"VIAGRA">>, <<"SECRETS">>, <<"hello">>}
ContentTexts == {<<>>, <<"Casino">>}
ContentHtml == {<<>>, <<HtmlWord("viagra")>>, <<HtmlWord("nude")>>, <<HtmlAlt("NUDE")>>}
ContentSenders == {Mum, Spammer}

\* POST /api/analyze-content with a well-formed body
PostAnalyzeContent(subject, sender, contentHtml, contentText, userId, childAccountId) ==
  /\ analysis' = [sender |-> sender, subject |-> subject, text |-> contentText,
                  html |-> contentHtml, userId |-> userId,
                  childAccountId |-> childAccountId,
                  result |-> checkContent(trustedSenders, subject, contentText,
                                          contentHtml, userId, sender, childAccountId)]
  /\ UNCHANGED <<scheduleVars, oauthVars, filterVars, teardown, now, connectionPool,
                 providerInstances, waiters, ticks, checkIntervals, mailbox,
                 trustedSenders, junkMailPreferences, runs>>

\* custom rules are added to the classifier while requests are analysed
NextContent ==
  \/ \E u \in Users, t \in {"Secret", "hello"}, x \in BOOLEAN : AddCustomFilter(u, t, x)
  \/ \E subject \in ContentSubjects, sender \in ContentSenders, html \in ContentHtml,
        text \in ContentTexts, u \in Users :
       PostAnalyzeContent(subject, sender, html, text, u, 1)

SpecContent == Init /\ [][NextContent]_vars

(* ------------------- the loop over a drawn junk folder ---------------- *)
\* the messages the loop is tried on: of the trusted sender or a stranger,
\* with a newsletter subject or not, with an offending body or not
LoopMessages(uid) ==
  {Msg(uid, from, subject, text) :
     from \in {Mum, Spammer}, subject \in {<<"Newsletter">>, <<"hello">>},
     text \in {<<"Casino">>, <<"hello">>}}

\* the preferences of account 1: none, or one record that keeps newsletters
\* or not and deletes all junk or not
LoopPreferences ==
  {<<>>} \cup {<<JunkMailPreferences(1, 1, 1, n, d)>> : n \in BOOLEAN, d \in BOOLEAN}

\* The junk folder of account 1 holds one or two unread messages.
InitLoop ==
  /\ now = 0
  /\ connectionPool = <<>>
  /\ providerInstances = [p \in ProviderTypes |-> NoProvider]
  /\ waiters = {}
  /\ ticks = [s \in Slots |-> IdleTick]
  /\ checkIntervals = {1}
  /\ \E box \in {<<m>> : m \in LoopMessages(11)}
              \cup {<<m, n>> : m \in LoopMessages(11), n \in LoopMessages(12)} :
       mailbox = [a \in Accounts |-> IF a = 1 THEN box ELSE <<>>]
  /\ trustedSenders = InitTrusted
  /\ junkMailPreferences \in LoopPreferences
  /\ runs = 0
  /\ analysis = NoAnalysis
  /\ InitOAuthService
  /\ InitNoCustomFilters
  /\ InitScheduled

\* the timer of account 1 fires; connecting, selecting and listing succeed,
\* marking, forwarding and deleting may fail
NextLoop ==
  \/ TimerFire(1)
  \/ \E s \in Slots : ConnectDone(s, "ok")
  \/ \E p \in ProviderTypes, g \in 0..MaxAge : ClientEnd(p, g)
  \/ \E s \in Slots : SelectFolder(s, TRUE)
  \/ \E s \in Slots : ListMessages(s, TRUE)
  \/ \E s \in Slots, io \in BOOLEAN : ProcessNext(s, io)
  \/ \E s \in Slots, ok \in BOOLEAN : DeleteNext(s, ok)

SpecLoop == InitLoop /\ [][NextLoop]_vars

(* ------------------ timers are scheduled and cancelled ---------------- *)
\* accounts 1 and 2 are scanned without network failures while callers
\* schedule them again, stop the service and switch their active flags
NextSchedule ==
  \/ \E a \in {1, 2} : TimerFire(a)
  \/ \E s \in Slots : ConnectDone(s, "ok")
  \/ \E p \in ProviderTypes, g \in 0..MaxAge : ClientEnd(p, g)
  \/ \E s \in Slots : SelectFolder(s, TRUE)
  \/ \E s \in Slots : ListMessages(s, TRUE)
  \/ \E s \in Slots : ProcessNext(s, TRUE)
  \/ \E s \in Slots : DeleteNext(s, TRUE)
  \/ \E a \in {1, 2} : ScheduleCheck(a)
  \/ StopAllChecks
  \/ \E a \in {1, 2}, active \in BOOLEAN : PatchChildAccount(a, active)

SpecSchedule == Init /\ [][NextSchedule]_vars

\* C21: once the service is stopped or an account is deactivated, the timer
\* of the account starts no further run for it: every run the timer starts
\* is for an account that is active and whose handle the service holds.
C21_CancelledAccountStartsNoTick ==
  [][\A a \in Accounts :
       (/\ StartedSlot # 0
        /\ ticks'[StartedSlot].origin = "timer"
        /\ ticks'[StartedSlot].acct = a)
       => (is_active[a] /\ a \in checkIntervals)]_vars

\* C22: whatever calls of scheduleCheck and stopAllChecks were made, the
\* runtime holds at most one timer per account, and exactly the timers whose
\* handles the service's map holds.
C22_OneTimerPerAccount ==
  \A a \in Accounts : timers[a] = (IF a \in checkIntervals THEN 1 ELSE 0)

\* the service was stopped and account 1 alone was scheduled again
C22_RescheduledAfterStop ==
  /\ checkIntervals = {1}
  /\ timers[1] = 1
  /\ timers[2] = 0
  /\ timers[3] = 0

\* C23: listMessages never raises: when the search or the fetch fails it
\* records the session's last error and returns an empty list, so the run
\* that awaits it is never ended by an exception of the listing.
C23_ListingNeverRaises ==
  [][\A s \in Slots :
       (ticks[s].pc = "list" /\ ticks'[s].pc # "list")
       => (ticks'[s].pc # "failed" /\ ticks'[s].thrown = "none")]_vars

\* what the loop finds out about a listed message m of account a
IsTrusted(a, m) == isEmailTrusted(trustedSenders, m.from, UserOf(a), a)
IsKept(prefs, m) == KeepReason(prefs, m.from, m.subject, m.text) # ""
IsInappropriate(a, m) ==
  checkContent(trustedSenders, m.subject, m.text, <<>>, UserOf(a), m.from, a).isInappropriate
\* the run of slot s processes the next message of its list in this step
Processes(s) == ticks[s].pc = "process" /\ ticks'[s].msgs = Tail(ticks[s].msgs)
\* the entries of an activity log
LogSet(log) == {log[i] : i \in 1..Len(log)}
QueueSet(queue) == {queue[i] : i \in 1..Len(queue)}

\* C24: the loop applies to each message the first applicable outcome of
\* trusted sender, keep preference, inappropriate, auto-delete-all,
\* untouched: a trusted or kept message is not queued whatever its content,
\* an inappropriate one is queued, and any other is queued only when the
\* preferences of the run set auto_delete_all.
C24_FirstApplicableOutcome ==
  [][\A s \in Slots :
       Processes(s) =>
         LET m == Head(ticks[s].msgs)
             a == ticks[s].acct
             n == Len(ticks[s].log)
             queued == ticks'[s].queue = Append(ticks[s].queue, m.id)
             notQueued == Len(ticks'[s].queue) <= Len(ticks[s].queue)
             logged(type) == /\ Len(ticks'[s].log) > n
                             /\ ticks'[s].log[n + 1] = LogEntry(type, m.uid)
         IN IF IsTrusted(a, m) THEN notQueued /\ logged("trusted_sender")
            ELSE IF IsKept(ticks[s].prefs, m) THEN notQueued /\ logged("kept")
            ELSE IF IsInappropriate(a, m) THEN queued
            ELSE IF ticks[s].prefs.auto_delete_all THEN queued /\ logged("deleted")
            ELSE notQueued /\ ticks'[s].log = ticks[s].log]_vars

\* a run kept a message whose content is inappropriate and did not queue it
C24_KeptThoughInappropriate ==
  \E s \in Slots :
    /\ ticks[s].pc = "process"
    /\ \E i \in 1..Len(ticks[s].listed) :
         LET m == ticks[s].listed[i] IN
         /\ IsInappropriate(ticks[s].acct, m)
         /\ LogEntry("kept", m.uid) \in LogSet(ticks[s].log)
         /\ m.id \notin QueueSet(ticks[s].queue)

\* C27: an inappropriate message is queued for deletion only after it was
\* forwarded: whenever its id is in the run's delete queue, the run has
\* logged a 'forward' and a 'filter_match' entry for it.
C27_ForwardedBeforeQueued ==
  \A s \in Slots :
    \A i \in 1..Len(ticks[s].listed) :
      LET m == ticks[s].listed[i]
          a == ticks[s].acct
      IN (/\ m.id \in QueueSet(ticks[s].queue)
          /\ ~IsTrusted(a, m)
          /\ ~IsKept(ticks[s].prefs, m)
          /\ IsInappropriate(a, m))
         => (/\ LogEntry("forward", m.uid) \in LogSet(ticks[s].log)
             /\ LogEntry("filter_match", m.uid) \in LogSet(ticks[s].log))

\* C28: a message the loop resolves as trusted-sender or as kept is marked
\* read in the junk folder, logged as 'trusted_sender' or 'kept' and not
\* queued for deletion.
C28_KeptMessageIsMarkedRead ==
  [][\A s \in Slots :
       Processes(s) =>
         LET m == Head(ticks[s].msgs)
             a == ticks[s].acct
             n == Len(ticks[s].log)
             type == IF IsTrusted(a, m) THEN "trusted_sender" ELSE "kept"
         IN (IsTrusted(a, m) \/ IsKept(ticks[s].prefs, m))
            => (/\ \E i \in 1..Len(mailbox'[a]) :
                     mailbox'[a][i].uid = m.uid /\ mailbox'[a][i].seen
                /\ Len(ticks'[s].log) > n
                /\ ticks'[s].log[n + 1] = LogEntry(type, m.uid)
                /\ Len(ticks'[s].queue) <= Len(ticks[s].queue))]_vars

\* C29: a message whose processing threw is skipped: it is not in the run's
\* delete queue, so no delete is attempted for it in this run.
C29_FailedMessageIsSkipped ==
  \A s \in Slots :
    (ticks[s].thrown = "message" /\ ticks[s].listed # <<>>)
    => LET m == ticks[s].listed[Len(ticks[s].listed) - Len(ticks[s].msgs)]
       IN m.id \notin QueueSet(ticks[s].queue)

\* C30: the batch delete goes through the whole queue: each step attempts
\* the delete of the head of the queue, which removes the message or fails
\* and leaves the folder as it is, and in both cases the run goes on with the
\* rest of the queue and, after the last id, with the disconnect.
C30_BatchDeleteIsBestEffort ==
  [][\A s \in Slots :
       (/\ ticks[s].pc = "delete"
        /\ (ticks'[s].queue # ticks[s].queue \/ ticks'[s].pc # "delete"))
       => LET id == Head(ticks[s].queue)
              pr == providerInstances[ticks[s].provider]
          IN /\ mailbox' \in {mailbox, Expunge(mailbox, pr, id)}
             /\ IF Len(ticks[s].queue) > 1
                THEN ticks'[s].pc = "delete" /\ ticks'[s].queue = Tail(ticks[s].queue)
                ELSE ticks'[s].pc \in {"disconnect", "done"}]_vars

\* the only run so far queued both messages of the folder; the delete of the
\* first id of the queue failed and the delete of the second removed its
\* message
C30_DeletedAfterFailedDelete ==
  /\ runs = 1
  /\ Len(mailbox[1]) = 1
  /\ mailbox[1][1].uid = 12
  /\ \E s \in Slots :
       /\ ticks[s].pc \in {"disconnect", "done"}
       /\ \A u \in {11, 12} :
            \E type \in {"deleted", "filter_match"} :
              LogEntry(type, u) \in LogSet(ticks[s].log)

\* C26: a run whose getProviderForAccount returned null ends there: it
\* logs an 'error' entry, has done nothing to any mailbox and logged nothing
\* but its 'check' and the error, starts no other connect, and the timers
\* stay as they are, so that the next tick tries again.
C26_NoSessionEndsTheTick ==
  [][\A s \in Slots :
       (ticks[s].pc \in {"connect", "reconnect"} /\ ticks'[s].pc # ticks[s].pc
        /\ ticks'[s].pc # "select")
       => (/\ ticks'[s].pc = "failed"
           /\ Len(ticks'[s].log) > Len(ticks[s].log)
           /\ ticks'[s].log[Len(ticks[s].log) + 1] = LogEntry("error", 0)
           /\ LogSet(ticks'[s].log) = {LogEntry("check", 0), LogEntry("error", 0)}
           /\ mailbox' = mailbox
           /\ timers' = timers
           /\ checkIntervals' = checkIntervals)]_vars

\* a run of the timer ended without a session and logged the error, and the
\* next run of the timer is connecting the entry the failure left behind
C26_NextTickTriesAgain ==
  \E s \in Slots, t \in Slots :
    /\ ticks[s].pc = "failed"
    /\ ticks[s].origin = "timer"
    /\ ticks[s].log = <<LogEntry("check", 0), LogEntry("error", 0), LogEntry("error", 0)>>
    /\ ticks[t].pc = "reconnect"
    /\ ticks[t].origin = "timer"
    /\ PoolHas(connectionPool, ticks[t].acct)
    /\ ~PoolGet(connectionPool, ticks[t].acct).isConnected
    /\ runs = 2

\* the first rule of a list that the text hits, 0 when there is none
FirstOf(hits) == IF hits = {} THEN 0 ELSE CHOOSE i \in hits : \A j \in hits : i <= j

\* C25: the verdict of checkContent is that of the first stage that matches,
\* in the order trusted sender, default keywords, default regexes, the user's
\* custom keywords, the user's custom regexes, alt attributes of the HTML
\* body, and otherwise not inappropriate; the keyword and regex stages look
\* at the subject and the text body only.
C25_FirstMatchingStage ==
  [][analysis' # analysis =>
       LET req == analysis'
           u == req.userId
           words == req.subject \o req.text
           low == [i \in 1..Len(words) |-> LowerWord(words[i])]
           has(k) == \E i \in 1..Len(low) : WordIncludes(low[i], k)
           trusted == /\ Truthy(req.sender)
                      /\ isEmailTrusted(trustedSenders, req.sender, u, req.childAccountId)
           lit == FirstOf({i \in 1..Len(defaultFilters) : has(defaultFilters[i])})
           rex == FirstOf({i \in 1..Len(defaultRegexFilters) :
                             \E j \in 1..Len(low) : low[j] = defaultRegexFilters[i]})
           cus == FirstOf({i \in 1..Len(customFilters.text[u]) :
                             has(customFilters.text[u][i])})
           crx == FirstOf({i \in 1..Len(customFilters.regex[u]) :
                             has(LowerWord(customFilters.regex[u][i]))})
           alt == FirstOf({i \in 1..Len(adultImageKeywords) :
                             \E j \in 1..Len(req.html) :
                               /\ req.html[j].alt
                               /\ LowerWord(req.html[j].word) = adultImageKeywords[i]})
           verdict(bad, reason) == req.result = [isInappropriate |-> bad, reason |-> reason]
       IN IF trusted THEN verdict(FALSE, "Sender is trusted")
          ELSE IF lit # 0 THEN verdict(TRUE, defaultFilters[lit])
          ELSE IF rex # 0 THEN verdict(TRUE, defaultRegexFilters[rex])
          ELSE IF cus # 0 THEN verdict(TRUE, customFilters.text[u][cus])
          ELSE IF crx # 0 THEN verdict(TRUE, customFilters.regex[u][crx])
          ELSE IF alt # 0 THEN verdict(TRUE, adultImageKeywords[alt])
          ELSE verdict(FALSE, "")]_vars

\* a request of a stranger whose only keyword is a word of the HTML body
\* outside an alt attribute was found not inappropriate
C25_KeywordInHtmlBodyIsIgnored ==
  /\ analysis.userId # Undefined
  /\ analysis.sender = Spammer
  /\ analysis.html = <<HtmlWord("viagra")>>
  /\ analysis.result = [isInappropriate |-> FALSE, reason |-> ""]

C32_PeriodNotBelowFloor ==
  \A a \in Accounts : timers[a] > 0 => period[a] >= 5

\* C33: an account is connected through the implementation of the provider
\* type its provider reference resolves to, and its pool entry records that
\* type.
C33_EntryOfReferencedProvider ==
  \A i \in 1..Len(connectionPool) :
    connectionPool[i].providerType = ProviderReference(connectionPool[i].accountId)

\* C34: whenever the run of an account works on a session (it is about to
\* select the folder, list, process or delete), that session was authenticated
\* with this account's own credentials, whatever other accounts of the same
\* provider type connected before or run at the same time.
C34_RunWorksOnOwnSession ==
  \A s \in Slots :
    (UsesSession(ticks, s) /\ Serving(providerInstances[ticks[s].provider]))
      => providerInstances[ticks[s].provider].authUser = ticks[s].acct

\* C35: in every reachable state a pool entry that is marked connected holds
\* a session whose isConnected() is true, so the session getProviderForAccount
\* returns for such an entry is connected.
C35_ConnectedEntryHoldsConnectedSession ==
  \A i \in 1..Len(connectionPool) :
    connectionPool[i].isConnected
      => providerInstances[connectionPool[i].providerType].connectionState

(* ---------------- the batch delete on a longer folder ----------------- *)
\* the messages the batch delete is tried on: an offending one of a stranger
\* or a harmless one of the trusted sender
BatchMessages(uid) ==
  {Msg(uid, Spammer, <<"hello">>, <<"Casino">>), Msg(uid, Mum, <<"hello">>, <<"hello">>)}

\* The junk folder of account 1 holds three unread messages.
InitBatch ==
  /\ now = 0
  /\ connectionPool = <<>>
  /\ providerInstances = [p \in ProviderTypes |-> NoProvider]
  /\ waiters = {}
  /\ ticks = [s \in Slots |-> IdleTick]
  /\ checkIntervals = {1}
  /\ \E m \in BatchMessages(11), n \in BatchMessages(12), o \in BatchMessages(13) :
       mailbox = [a \in Accounts |-> IF a = 1 THEN <<m, n, o>> ELSE <<>>]
  /\ trustedSenders = InitTrusted
  /\ junkMailPreferences = <<>>
  /\ runs = 0
  /\ analysis = NoAnalysis
  /\ InitOAuthService
  /\ InitNoCustomFilters
  /\ InitScheduled

\* the timer of account 1 fires, possibly again while a run is in flight;
\* every command of a run succeeds
NextBatch ==
  \/ TimerFire(1)
  \/ \E s \in Slots : ConnectDone(s, "ok")
  \/ \E p \in ProviderTypes, g \in 0..MaxAge : ClientEnd(p, g)
  \/ \E s \in Slots : SelectFolder(s, TRUE)
  \/ \E s \in Slots : ListMessages(s, TRUE)
  \/ \E s \in Slots : ProcessNext(s, TRUE)
  \/ \E s \in Slots : DeleteNext(s, TRUE)

SpecBatch == InitBatch /\ [][NextBatch]_vars

\* the uids of the messages of a folder
Uids(box) == {box[i].uid : i \in 1..Len(box)}

\* C36: a step of the batch delete removes from the mailboxes at most the
\* message whose id is at the head of the run's delete queue, as the run
\* listed it: no message the run did not queue is ever removed.
C36_BatchDeletesOnlyQueued ==
  [][\A s \in Slots :
       (ticks[s].pc = "delete" /\ ticks'[s] # ticks[s])
       => \A b \in Accounts :
            \A u \in Uids(mailbox[b]) \ Uids(mailbox'[b]) :
              \E j \in 1..Len(ticks[s].listed) :
                /\ ticks[s].listed[j].uid = u
                /\ ticks[s].listed[j].id = Head(ticks[s].queue)]_vars

\* C37: while a run works on the session it was handed, no step of anything
\* else (the idle sweep, the eviction of the least recently used entry)
\* starts to disconnect that session or removes the run's entry from the
\* pool.
C37_SessionInUseIsNotEvicted ==
  [][\A s \in Slots :
       LET a == ticks[s].acct IN
       (/\ UsesSession(ticks, s)
        /\ ticks'[s] = ticks[s]
        /\ PoolHas(connectionPool, a)
        /\ a \notin PendingEvictions(waiters))
       => (/\ PoolHas(connectionPool', a)
           /\ a \notin PendingEvictions(waiters'))]_vars

\* the literal rules the store holds for a user, as checkContent compares
\* them
PersistedLiterals(u) ==
  {LowerWord(filterRules[i].rule_text) :
     i \in {k \in 1..Len(filterRules) :
              filterRules[k].user_id = u /\ ~filterRules[k].is_regex}}

\* the literal rules checkContent applies for a user
AppliedLiterals(u) == Range(customFilters.text[u])

\* C38: after any sequence of creations and deletions of filter rules, the
\* custom rules checkContent applies for a user are exactly the rules the
\* store holds for that user.
C38_AppliedRulesArePersistedRules ==
  \A u \in Users : AppliedLiterals(u) = PersistedLiterals(u)

\* how many entries of the activity type a log holds
CountOf(log, type) == Cardinality({i \in 1..Len(log) : log[i].activity_type = type})

\* C39: a run that ended with an exception has written exactly one 'error'
\* entry to the activity log, whether the timer or check-now started it.
C39_OneErrorEntryPerFailedRun ==
  \A s \in Slots :
    ticks[s].pc = "failed" => CountOf(ticks[s].log, "error") = 1

====
